---------------------------- MODULE Spec2Model ----------------------------
(***************************************************************************)
(* Licensing assistant: the assessment request of the backend              *)
(* (evaluate_restaurant: input validation, fire track, police             *)
(* requirement, rule matching, AI report with local fallback) as           *)
(* documented in docs/TECHNICAL_DOCUMENTATION.md.                          *)
(*                                                                         *)
(* Numbers. A JSON number is kept in fixed point with one binary           *)
(* fractional digit: the integer x stands for x/2, so 300 is 150.0 and     *)
(* 301 is 150.5.  float() keeps the value, int() truncates toward zero     *)
(* and yields a whole number counted in units.                             *)
(***************************************************************************)
EXTENDS Integers, Sequences, FiniteSets, TLC

VARIABLES
    RESTAURANT_RULES,   \* the global rule corpus (a sequence of rules)
    pc,                 \* position of the request inside evaluate_restaurant
    payload,            \* the raw request body
    area,               \* local: float(payload['area']), in halves
    seats,              \* local: int(payload['seats']), in units
    features,           \* local: the elements of payload['features']
    fire_track,         \* local: "declaration" | "full-review" | "unset"
    police_required,    \* local
    police_set,         \* whether police_required has been computed
    matched_rules,      \* local: the rules kept by the matcher
    ai_try,             \* what the AI collaborator did for this request
    result,             \* the response body under construction
    outcome,            \* "none" | "error" | "raised" | "ok"
    error,              \* the error text of an "error" / "raised" outcome
    stages,             \* the stages this request has run so far
    workers,            \* the requests served side by side, by worker
    load_log,           \* what the last load of the rules printed
    api,                \* the browser: the call of ApiService.assessBusiness
    page,               \* the browser: what the page shows
    inputs,             \* the browser: what the fields of the form hold
    inflight,           \* the browser: the submissions awaiting an answer
    boot,               \* the browser: the scripts loading, the retry timer
    dyn                 \* the React form: schema, values, errors, calls

\* What belongs to the one request followed step by step.
requestVars == <<pc, payload, area, seats, features, fire_track,
                 police_required, police_set, matched_rules, ai_try, result,
                 outcome, error, stages>>

\* The browser side.
formVars == <<inputs, inflight, boot, dyn>>

clientVars == <<api, page, formVars>>

\* What that request never touches.
outside == <<workers, load_log, clientVars>>

vars == <<RESTAURANT_RULES, requestVars, outside>>

----------------------------------------------------------------------------
(* Bounds of the model *)

\* Longest corpus explored.
MaxCorpus == 2

----------------------------------------------------------------------------
(* Fixed point helpers *)

\* The whole number n as a fixed-point value.
FromInt(n) == 2 * n

\* Whether the fixed-point value x is a whole number.
IsWhole(x) == x % 2 = 0

Range(s) == { s[i] : i \in DOMAIN s }

----------------------------------------------------------------------------
(* Raw JSON values of a request body *)

Missing   == [t |-> "missing", v |-> 0]      \* the key is not in the body
Null      == [t |-> "null",    v |-> 0]      \* JSON null
Str       == [t |-> "str",     v |-> 0]      \* a string that is no number ("abc")
Num(x)    == [t |-> "num",     v |-> x]      \* a JSON number x/2
NumStr(x) == [t |-> "numstr",  v |-> x]      \* a string holding the text of x/2

\* A raw features value: its JSON type and the elements Python iterates
\* over (list items, dict keys, characters of a string).
FMissing    == [t |-> "missing", v |-> <<>>]
FNull       == [t |-> "null",    v |-> <<>>]
FList(s)    == [t |-> "list",    v |-> s]
FDict(keys) == [t |-> "dict",    v |-> keys]
FStr(chars) == [t |-> "str",     v |-> chars]

\* Areas: absent, null, "abc", -1, 0, 80, 150, "150", 150.5, 300.
RawAreas ==
    { Missing, Null, Str, Num(-2), Num(0), Num(160), Num(300), NumStr(300),
      Num(301), Num(600) }

\* Seats: absent, "abc", -1, -0.5, 0, 25, 50, 50.5, "50.5", 51, 150, 200,
\* 201.
RawSeats ==
    { Missing, Str, Num(-2), Num(-1), Num(0), Num(50), Num(100), Num(101),
      NumStr(101), Num(102), Num(300), Num(400), Num(402) }

\* Features: absent, null, {}, {"alcohol": ..}, "", "gas", and lists with
\* allowed, repeated and unknown tags.
RawFeatures ==
    { FMissing, FNull, FDict(<<>>), FDict(<<"alcohol">>), FStr(<<>>),
      FStr(<<"g", "a", "s">>), FList(<<>>), FList(<<"gas">>),
      FList(<<"alcohol", "delivery">>), FList(<<"gas", "gas">>),
      FList(<<"gas", "pizza">>) }

Payloads == [area : RawAreas, seats : RawSeats, features : RawFeatures]

----------------------------------------------------------------------------
(* Python conversions used by the validation step *)

\* float(x): the value, or the exception raised.
py_float(x) ==
    CASE x.t = "num"    -> [ok |-> TRUE,  v |-> x.v, exc |-> "none"]
      [] x.t = "numstr" -> [ok |-> TRUE,  v |-> x.v, exc |-> "none"]
      [] x.t = "str"    -> [ok |-> FALSE, v |-> 0,   exc |-> "ValueError"]
      [] OTHER          -> [ok |-> FALSE, v |-> 0,   exc |-> "TypeError"]

\* Truncation toward zero of a fixed-point value, in units.
Trunc(x) == IF x >= 0 THEN x \div 2 ELSE -((-x) \div 2)

\* int(x): a number is truncated toward zero, a string must spell a whole
\* number.
py_int(x) ==
    CASE x.t = "num"    -> [ok |-> TRUE, v |-> Trunc(x.v), exc |-> "none"]
      [] x.t = "numstr" -> IF IsWhole(x.v)
                           THEN [ok |-> TRUE,  v |-> x.v \div 2, exc |-> "none"]
                           ELSE [ok |-> FALSE, v |-> 0, exc |-> "ValueError"]
      [] x.t = "str"    -> [ok |-> FALSE, v |-> 0, exc |-> "ValueError"]
      [] OTHER          -> [ok |-> FALSE, v |-> 0, exc |-> "TypeError"]

\* Whether Python can iterate over a features value.
Iterable(f) == f.t \in {"list", "dict", "str"}

----------------------------------------------------------------------------
(* Step 1: input validation *)

required_fields == {"area", "seats", "features"}

allowed_features == {"gas", "delivery", "alcohol", "hood", "meat"}

\* k in payload
HasKey(p, k) == p[k].t # "missing"

\* The feature values that are not allowed, in order.
InvalidFeatures(f) == SelectSeq(f.v, LAMBDA x : x \notin allowed_features)

\* The verdict of the validation step on a raw payload p:
\*   "error"  - an {"error": ..} body is returned,
\*   "raised" - an exception leaves evaluate_restaurant,
\*   "ok"     - the request goes on with area, seats and features.
ValidateInput(p) ==
    LET a == py_float(p.area)
        s == py_int(p.seats)
        rejected(msg) == [verdict |-> "error", msg |-> msg,
                          area |-> 0, seats |-> 0, features |-> {}]
    IN  IF ~ (\A k \in required_fields : HasKey(p, k))
          THEN rejected("missing required fields")
        ELSE IF ~ a.ok \/ ~ s.ok
          THEN rejected("non-numeric values")
        ELSE IF a.v <= 0 \/ s.v < 0
          THEN rejected("invalid values")
        ELSE IF ~ Iterable(p.features)
          THEN [verdict |-> "raised", msg |-> "TypeError",
                area |-> 0, seats |-> 0, features |-> {}]
        ELSE IF InvalidFeatures(p.features) # <<>>
          THEN rejected("invalid features")
        ELSE [verdict |-> "ok", msg |-> "",
              area |-> a.v, seats |-> s.v, features |-> Range(p.features.v)]

----------------------------------------------------------------------------
(* Steps 2 and 3: fire track and police requirement *)

FIRE_AREA_MAX == 150
FIRE_SEATS_MAX == 50
POLICE_SEATS == 200

\* Mutant of is_small_business: the bounds taken as exclusive.
is_small_business_exclusive(a, s) ==
    a < FromInt(FIRE_AREA_MAX) /\ s < FIRE_SEATS_MAX

is_small_business(a, s) == a <= FromInt(FIRE_AREA_MAX) /\ s <= FIRE_SEATS_MAX

FireTrackOf(a, s) ==
    IF is_small_business(a, s) THEN "declaration" ELSE "full-review"

\* Mutant of PoliceRequiredOf: 200 seats already count as high capacity.
PoliceRequiredOf_inclusive(s, fs) == "alcohol" \in fs \/ s >= POLICE_SEATS

PoliceRequiredOf(s, fs) ==
    LET has_alcohol == "alcohol" \in fs
        high_capacity == s > POLICE_SEATS
    IN  has_alcohol \/ high_capacity

----------------------------------------------------------------------------
(* Step 4: rule matching *)

\* A condition is a dictionary: a function whose domain is the set of keys
\* present.  Numeric bounds are fixed-point values, feature lists are
\* sequences of tags.
CondKeys ==
    {"area_min", "area_max", "seats_min", "seats_max",
     "features_any", "features_all"}

EmptyCond == [k \in {} |-> 0]

\* The profile handed to the matcher.
Profile(a, s, fs) == [area |-> a, seats |-> s, features |-> fs]

\* Mutant of rule_matches: the features_all clause is forgotten.
rule_matches_without_all(condition, p) ==
    LET has(k) == k \in DOMAIN condition
    IN  /\ has("area_min") => p.area >= condition["area_min"]
        /\ has("area_max") => p.area <= condition["area_max"]
        /\ has("seats_min") => FromInt(p.seats) >= condition["seats_min"]
        /\ has("seats_max") => FromInt(p.seats) <= condition["seats_max"]
        /\ has("features_any") =>
              p.features \cap Range(condition["features_any"]) # {}

\* Mutant of rule_matches: an absent area_max is read as the bound 0
\* (condition.get("area_max", 0)).
rule_matches_default_bound(condition, p) ==
    LET has(k) == k \in DOMAIN condition
    IN  /\ has("area_min") => p.area >= condition["area_min"]
        /\ p.area <= (IF has("area_max") THEN condition["area_max"] ELSE 0)
        /\ has("seats_min") => FromInt(p.seats) >= condition["seats_min"]
        /\ has("seats_max") => FromInt(p.seats) <= condition["seats_max"]
        /\ has("features_any") =>
              p.features \cap Range(condition["features_any"]) # {}
        /\ has("features_all") =>
              Range(condition["features_all"]) \subseteq p.features

\* Mutant of rule_matches: area_max is an exclusive bound.
rule_matches_exclusive_max(condition, p) ==
    LET has(k) == k \in DOMAIN condition
    IN  /\ has("area_min") => p.area >= condition["area_min"]
        /\ has("area_max") => p.area < condition["area_max"]
        /\ has("seats_min") => FromInt(p.seats) >= condition["seats_min"]
        /\ has("seats_max") => FromInt(p.seats) <= condition["seats_max"]
        /\ has("features_any") =>
              p.features \cap Range(condition["features_any"]) # {}
        /\ has("features_all") =>
              Range(condition["features_all"]) \subseteq p.features

\* Mutant of rule_matches: a condition with a key other than the six is
\* refused.
rule_matches_strict(condition, p) ==
    LET has(k) == k \in DOMAIN condition
    IN  IF ~ (DOMAIN condition \subseteq CondKeys) THEN FALSE
        ELSE IF has("area_min") /\ p.area < condition["area_min"] THEN FALSE
        ELSE IF has("area_max") /\ p.area > condition["area_max"] THEN FALSE
        ELSE IF has("seats_min")
                /\ FromInt(p.seats) < condition["seats_min"] THEN FALSE
        ELSE IF has("seats_max")
                /\ FromInt(p.seats) > condition["seats_max"] THEN FALSE
        ELSE IF has("features_any")
                /\ p.features \cap Range(condition["features_any"]) = {}
          THEN FALSE
        ELSE IF has("features_all")
                /\ ~ (Range(condition["features_all"]) \subseteq p.features)
          THEN FALSE
        ELSE TRUE

\* Mutant of rule_matches: features_all is tested like features_any.
rule_matches_all_as_any(condition, p) ==
    LET has(k) == k \in DOMAIN condition
    IN  /\ has("area_min") => p.area >= condition["area_min"]
        /\ has("area_max") => p.area <= condition["area_max"]
        /\ has("seats_min") => FromInt(p.seats) >= condition["seats_min"]
        /\ has("seats_max") => FromInt(p.seats) <= condition["seats_max"]
        /\ has("features_any") =>
              p.features \cap Range(condition["features_any"]) # {}
        /\ has("features_all") =>
              p.features \cap Range(condition["features_all"]) # {}

rule_matches(condition, p) ==
    LET has(k) == k \in DOMAIN condition
    IN  IF has("area_min") /\ p.area < condition["area_min"]
          THEN FALSE
        ELSE IF has("area_max") /\ p.area > condition["area_max"]
          THEN FALSE
        ELSE IF has("seats_min") /\ FromInt(p.seats) < condition["seats_min"]
          THEN FALSE
        ELSE IF has("seats_max") /\ FromInt(p.seats) > condition["seats_max"]
          THEN FALSE
        ELSE IF has("features_any")
                /\ p.features \cap Range(condition["features_any"]) = {}
          THEN FALSE
        ELSE IF has("features_all")
                /\ ~ (Range(condition["features_all"]) \subseteq p.features)
          THEN FALSE
        ELSE TRUE

\* rule.get("if", {}): a rule without a condition has the empty one.
ConditionOf(rule) == IF "if" \in DOMAIN rule THEN rule["if"] ELSE EmptyCond

\* The matcher: the rules of the corpus whose condition the profile
\* satisfies, in corpus order.
MatchedRules(p, corpus) ==
    SelectSeq(corpus, LAMBDA rule : rule_matches(ConditionOf(rule), p))

\* The rule bodies the corpora of the request model are built from.
RuleConds ==
    { [area_max |-> FromInt(150)],
      [features_any |-> <<"gas", "alcohol">>],
      [seats_max |-> FromInt(200), features_all |-> <<"alcohol", "delivery">>] }

\* A rule with identifier i: with condition c, or without any "if" key.
RuleWith(i, c) == [k \in {"id", "if"} |-> IF k = "id" THEN i ELSE c]
RuleBare(i) == [k \in {"id"} |-> i]

RulesAt(i) == { RuleWith(i, c) : c \in RuleConds } \cup { RuleBare(i) }

\* Every corpus of at most MaxCorpus rules; the rule at position i has
\* identifier i, so identifiers are unique.
Corpora ==
    UNION { { c \in [1..n -> UNION { RulesAt(i) : i \in 1..n }] :
                \A i \in 1..n : c[i] \in RulesAt(i) } : n \in 0..MaxCorpus }

----------------------------------------------------------------------------
(* Step 5: the AI report and its local fallback *)

\* What a call of the AI collaborator can do: return a report, or fail.
AIFailures == {"network", "timeout", "malformed", "no_credentials"}
AIOutcomes == {"report"} \cup AIFailures

\* generate(profile, trackDecision, matchedRules, timeout) -> report | failure:
\* every failure of the AI path reaches the caller as an exception.
Raises(o) == o \in AIFailures

\* Mutant of ExceptException: only transport errors are caught.
ExceptTransportOnly(exc) == exc \in {"network", "timeout"}

\* "except Exception": the exceptions the handler of the AI call catches.
ExceptException(exc) == exc \in AIFailures

\* The keys of a report (the "ai_report" object of the response) and the
\* keys among them that hold lists.
ReportKeys ==
    {"summary", "actions", "potential_risks", "tips", "budget_planning"}
ListKeys == {"actions", "potential_risks", "tips"}

\* A report: who wrote it, the rules it was written from, and body, the
\* JSON object itself as a function from its keys.
NoReport ==
    [generated_by |-> "none", rule_ids |-> <<>>, body |-> [k \in {} |-> 0]]

RuleIds(rules) == [i \in DOMAIN rules |-> rules[i]["id"]]

\* The body of a report: one action per rule it was written from, the
\* other lists empty.
ReportBody(text, rules) ==
    [k \in ReportKeys |->
        CASE k = "summary"         -> text
          [] k = "actions"         -> RuleIds(rules)
          [] k = "budget_planning" -> "budget"
          [] OTHER                 -> <<>>]

\* b with key k set to v, added if absent.
WithKey(b, k, v) ==
    [j \in DOMAIN b \cup {k} |-> IF j = k THEN v ELSE b[j]]

\* The report the AI collaborator returns.
generate_ai_report(p, rules) ==
    [generated_by |-> "ai", rule_ids |-> RuleIds(rules),
     body |-> ReportBody("ai_text", rules)]

\* Mutant of create_basic_report: a list with nothing in it is left out.
create_basic_report_sparse(p, rules) ==
    [generated_by |-> "local", rule_ids |-> RuleIds(rules),
     body |-> LET b == WithKey(ReportBody("local_text", rules),
                               "is_fallback", TRUE)
              IN  [k \in {j \in DOMAIN b : j \in ListKeys => b[j] # <<>>}
                     |-> b[k]]]

\* The report synthesised locally from the matched rules; it says of
\* itself that it is the fallback.
create_basic_report(p, rules) ==
    [generated_by |-> "local", rule_ids |-> RuleIds(rules),
     body |-> WithKey(ReportBody("local_text", rules), "is_fallback", TRUE)]

----------------------------------------------------------------------------
(* The response body *)

NoSummary ==
    [area |-> 0, seats |-> 0, features |-> {}, fire_track |-> "unset",
     police |-> FALSE]

\* ai_fallback = FALSE stands for a body without the "ai_fallback" key.
NoResult ==
    [summary |-> NoSummary, checklist |-> <<>>, ai_report |-> NoReport,
     ai_fallback |-> FALSE]

NoPayload == [area |-> Missing, seats |-> Missing, features |-> FMissing]

----------------------------------------------------------------------------
(* Requests served side by side, and the loading of the rules *)

\* The workers of the server; each serves one request at a time.
Workers == {"w1", "w2"}

\* A worker: its position, the profile of its request, the summary, the
\* list it iterates (rules) and how far (pos), the rules kept so far, the
\* checklist; taken is the corpus as it was when the iteration began.
IdleWorker ==
    [pc |-> "idle", profile |-> Profile(0, 0, {}), summary |-> NoSummary,
     rules |-> <<>>, pos |-> 0, matched |-> <<>>, checklist |-> <<>>,
     taken |-> <<>>]

\* get_fallback_rules(): the rule set built into the program.
get_fallback_rules == <<RuleBare(1)>>

----------------------------------------------------------------------------
(* The browser: JavaScript values *)

\* Values of businessData.area and .seats.  Numbers are whole here.
JsUndefined == [t |-> "undefined", v |-> 0]
JsNull      == [t |-> "null",      v |-> 0]
JsNaN       == [t |-> "nan",       v |-> 0]
JsNum(n)    == [t |-> "num",       v |-> n]
JsStr       == [t |-> "str",       v |-> 0]     \* the string "abc"

\* Values of businessData.features.
JsArray(s)   == [t |-> "array",     v |-> s]
JsNoArray(t) == [t |-> t,           v |-> <<>>]

\* ToNumber, as the relational operators apply it to an operand.
ToNumber(x) ==
    CASE x.t = "num"  -> [nan |-> FALSE, n |-> x.v]
      [] x.t = "null" -> [nan |-> FALSE, n |-> 0]
      [] OTHER        -> [nan |-> TRUE,  n |-> 0]

\* !x
Not(x) == x.t \in {"undefined", "null", "nan"} \/ (x.t = "num" /\ x.v = 0)

\* x <= c, x < c, x > c, x >= c for a number c: false when x is NaN.
LessEq(x, c)      == ~ ToNumber(x).nan /\ ToNumber(x).n <= c
LessThan(x, c)    == ~ ToNumber(x).nan /\ ToNumber(x).n < c
GreaterThan(x, c) == ~ ToNumber(x).nan /\ ToNumber(x).n > c
GreaterEq(x, c)   == ~ ToNumber(x).nan /\ ToNumber(x).n >= c

\* Array.isArray(f)
IsArray(f) == f.t = "array"

\* An Error object; NoError where nothing was thrown.
Err(name, message) == [name |-> name, message |-> message]
NoError == Err("", "")

\* message.includes(word), for the messages and words of the program.
Includes(message, word) ==
    <<message, word>> \in { <<"Failed to fetch", "fetch">> }

----------------------------------------------------------------------------
(* The browser: ApiService *)

AREA_WARN  == 10000
SEATS_WARN == 1000

\* What assessBusiness may be called with.
BusinessData ==
    [area     : {JsUndefined, JsNull, JsNaN, JsStr, JsNum(0), JsNum(-5),
                 JsNum(80), JsNum(AREA_WARN), JsNum(AREA_WARN + 1)},
     seats    : {JsUndefined, JsNull, JsNaN, JsStr, JsNum(-1), JsNum(0),
                 JsNum(SEATS_WARN), JsNum(SEATS_WARN + 1)},
     features : {JsArray(<<>>), JsArray(<<"gas">>), JsNoArray("undefined"),
                 JsNoArray("str")}]

NoData ==
    [area |-> JsUndefined, seats |-> JsUndefined,
     features |-> JsNoArray("undefined")]

\* Mutant of validateBusinessData: a very large area or seat count is
\* refused.
validateBusinessData_strict(businessData) ==
    LET area_     == businessData.area
        seats_    == businessData.seats
        features_ == businessData.features
    IN  IF Not(area_) \/ LessEq(area_, 0)
          THEN [thrown |-> Err("Error", "area must be greater than 0"),
                warned |-> {}]
        ELSE IF seats_.t = "undefined" \/ LessThan(seats_, 0)
          THEN [thrown |-> Err("Error", "seats must be 0 or more"),
                warned |-> {}]
        ELSE IF ~ IsArray(features_)
          THEN [thrown |-> Err("Error", "features must be an array"),
                warned |-> {}]
        ELSE IF GreaterThan(area_, AREA_WARN)
          THEN [thrown |-> Err("Error", "area very large"), warned |-> {}]
        ELSE IF GreaterThan(seats_, SEATS_WARN)
          THEN [thrown |-> Err("Error", "seats very large"), warned |-> {}]
        ELSE [thrown |-> NoError, warned |-> {}]

\* validateBusinessData: the error it throws, if any, and what it writes
\* with console.warn.
validateBusinessData(businessData) ==
    LET area_     == businessData.area
        seats_    == businessData.seats
        features_ == businessData.features
    IN  IF Not(area_) \/ LessEq(area_, 0)
          THEN [thrown |-> Err("Error", "area must be greater than 0"),
                warned |-> {}]
        ELSE IF seats_.t = "undefined" \/ LessThan(seats_, 0)
          THEN [thrown |-> Err("Error", "seats must be 0 or more"),
                warned |-> {}]
        ELSE IF ~ IsArray(features_)
          THEN [thrown |-> Err("Error", "features must be an array"),
                warned |-> {}]
        ELSE [thrown |-> NoError,
              warned |->
                {w \in {"area very large"} : GreaterThan(area_, AREA_WARN)}
                \cup
                {w \in {"seats very large"} :
                    GreaterThan(seats_, SEATS_WARN)}]

PAGE_SIZE == 10

\* A list of n items, in order; list.slice(0, limit) for limit >= 0.
Items(n) == [i \in 1..n |-> i]

Slice(list, limit) ==
    SubSeq(list, 1, IF limit < Len(list) THEN limit ELSE Len(list))

\* The ai_report of a response body; present is false where the body has
\* none.
JsNoReport ==
    [present |-> FALSE, actions |-> <<>>, potential_risks |-> <<>>,
     tips |-> <<>>]

\* The body of a response: JSON or not; its "error" and "message" fields,
\* "" where the field is absent; whether it has a summary; its checklist
\* and its ai_report.
NoBody ==
    [t |-> "text", error |-> "", message |-> "", summary |-> FALSE,
     checklist |-> <<>>, ai_report |-> JsNoReport]

\* The body of a refusal, and the body of an assessment with c checklist
\* items and a items in each list of its report.
ErrorBody(error_, message_) ==
    [NoBody EXCEPT !.t = "json", !.error = error_, !.message = message_]

Assessment(c, a) ==
    [NoBody EXCEPT !.t = "json", !.summary = TRUE, !.checklist = Items(c),
                   !.ai_report = [present |-> TRUE, actions |-> Items(a),
                                  potential_risks |-> Items(a),
                                  tips |-> Items(a)]]

Bodies ==
    { NoBody,
      Assessment(1, 1),
      ErrorBody("AI is required", ""),
      ErrorBody("", "try later") }

\* What fetch does: it rejects (the server cannot be reached; browsers
\* word the TypeError differently), or it resolves with a response.
FetchOutcomes ==
    { [kind |-> "rejected", ok |-> FALSE, status |-> 0, body |-> NoBody,
       text |-> m] : m \in {"Failed to fetch", "Load failed"} }
    \cup
    { [kind |-> "response", ok |-> st = 200, status |-> st, body |-> b,
       text |-> ""] : st \in {200, 400, 500}, b \in Bodies }

NoResponse ==
    [kind |-> "none", ok |-> FALSE, status |-> 0, body |-> NoBody,
     text |-> ""]

\* What the try block of fetchWithErrorHandling throws on outcome r.  In
\* the branch of a response that is not ok the code reads `data`, a const
\* of the same block declared further down: the read is of an
\* uninitialised binding and throws a ReferenceError.
TryBlock(r) ==
    IF r.kind = "rejected" THEN Err("TypeError", r.text)
    ELSE IF ~ r.ok
      THEN Err("ReferenceError",
               "Cannot access 'data' before initialization")
    ELSE IF r.body.t # "json"
      THEN Err("SyntaxError", "Unexpected token")
    ELSE NoError

\* fetchWithErrorHandling on outcome r: what it throws, what it returns.
fetchWithErrorHandling(r) ==
    LET e == TryBlock(r)
    IN  IF e = NoError
          THEN [thrown |-> NoError, returned |-> r.body]
        ELSE IF e.name = "TypeError" /\ Includes(e.message, "fetch")
          THEN [thrown |-> Err("Error", "cannot connect to the server"),
                returned |-> NoBody]
        ELSE IF Includes(e.message, "HTTP error")
          THEN [thrown |-> Err("Error", "communication error, try again"),
                returned |-> NoBody]
        ELSE [thrown |-> e, returned |-> NoBody]

\* The call of assessBusiness: where it is, who called, its argument, the
\* requests it has put on the network, its warnings, the outcome of its
\* fetch, what it threw or returned.
IdleApi ==
    [pc |-> "idle", caller |-> "none", data |-> NoData, sent |-> 0,
     warned |-> {}, response |-> NoResponse, thrown |-> NoError,
     returned |-> NoBody]

\* What the fields of the form hold: nothing, or the digits of a whole
\* number; and the boxes ticked.
Empty    == [t |-> "empty",  v |-> 0]
Typed(n) == [t |-> "digits", v |-> n]

FormInputs ==
    [area     : {Empty, Typed(0), Typed(80), Typed(AREA_WARN + 1)},
     seats    : {Empty, Typed(-1), Typed(30), Typed(SEATS_WARN + 1)},
     features : {<<>>, <<"gas">>}]

\* parseFloat and parseInt of a field: NaN unless it holds a number.
parseFloat(x) == IF x.t = "digits" THEN JsNum(x.v) ELSE JsNaN
parseInt(x)   == IF x.t = "digits" THEN JsNum(x.v) ELSE JsNaN

collectFormData(form) ==
    [area |-> parseFloat(form.area), seats |-> parseInt(form.seats),
     features |-> JsArray(form.features)]

validateFormData(data) ==
    /\ GreaterThan(data.area, 0)
    /\ GreaterEq(data.seats, 0)
    /\ IsArray(data.features)

\* validateInputs(), on page pg whose fields hold form.
validateInputs(pg, form) ==
    LET area_      == parseFloat(form.area)
        seats_     == parseInt(form.seats)
        hasFeature == Len(form.features) > 0
        isValid    == /\ GreaterThan(area_, 0)
                      /\ GreaterEq(seats_, 0)
                      /\ hasFeature
    IN  [pg EXCEPT !.submitDisabled = ~ isValid]

setLoadingState(pg, isLoading) ==
    [pg EXCEPT !.submitDisabled = isLoading, !.loading = isLoading]

\* A section as rendered: the items shown and the buttons under them.
NoView == [items |-> <<>>, controls |-> {}]

\* The items and buttons of a section that shows list up to limit.
Render(list, limit) ==
    [items    |-> Slice(list, limit),
     controls |-> IF Len(list) > limit THEN {"more", "all"}
                  ELSE IF limit > PAGE_SIZE THEN {"less"}
                  ELSE {}]

\* displayChecklist(checklist), on page pg.
displayChecklist(pg, checklist) ==
    IF Len(checklist) = 0
      THEN [pg EXCEPT !.shown.checklist = NoView]
      ELSE [pg EXCEPT !.shown.checklist =
                         Render(checklist, pg.checklistShowCount),
                      !.currentChecklist = checklist]

\* One section of displayAIReport.
Section(list, limit) == IF Len(list) > 0 THEN Render(list, limit) ELSE NoView

\* displayAIReport(aiReport), on page pg.
displayAIReport(pg, aiReport) ==
    IF ~ aiReport.present
      THEN [pg EXCEPT !.shown.actions = NoView, !.shown.risks = NoView,
                      !.shown.tips = NoView]
      ELSE [pg EXCEPT
              !.shown.actions = Section(aiReport.actions, pg.actionsShowCount),
              !.shown.risks =
                  Section(aiReport.potential_risks, pg.risksShowCount),
              !.shown.tips = Section(aiReport.tips, pg.tipsShowCount),
              !.currentActions = IF Len(aiReport.actions) > 0
                                   THEN aiReport.actions ELSE @,
              !.currentAIReport = aiReport]

\* Mutant of displayError: the results are left where they are.
displayError_over_results(pg, message) ==
    [pg EXCEPT !.errorContent = message, !.errorVisible = TRUE]

\* displayError(message), on page pg.
displayError(pg, message) ==
    [pg EXCEPT !.resultsVisible = FALSE, !.errorContent = message,
               !.errorVisible = TRUE]

\* Mutant of displayResults: the counters are left as they were.
displayResults_no_reset(pg, data) ==
    LET hidden == [pg EXCEPT !.errorVisible = FALSE]
        listed == displayChecklist(hidden, data.checklist)
        told   == IF data.ai_report.present
                    THEN displayAIReport(listed, data.ai_report)
                    ELSE listed
    IN  IF ~ data.summary
          THEN [page |-> hidden,
                thrown |-> Err("TypeError",
                               "Cannot read properties of undefined")]
          ELSE [page |-> [told EXCEPT !.resultsVisible = TRUE],
                thrown |-> NoError]

\* displayResults(data), on page pg: the page it leaves and what it
\* throws.  displaySummary reads summary.features and throws on a body
\* that has no summary, before anything is rendered.
displayResults(pg, data) ==
    LET reset  == [pg EXCEPT !.errorVisible = FALSE,
                             !.checklistShowCount = PAGE_SIZE,
                             !.actionsShowCount = PAGE_SIZE,
                             !.risksShowCount = PAGE_SIZE,
                             !.tipsShowCount = PAGE_SIZE]
        listed == displayChecklist(reset, data.checklist)
        told   == IF data.ai_report.present
                    THEN displayAIReport(listed, data.ai_report)
                    ELSE listed
    IN  IF ~ data.summary
          THEN [page |-> reset,
                thrown |-> Err("TypeError",
                               "Cannot read properties of undefined")]
          ELSE [page |-> [told EXCEPT !.resultsVisible = TRUE],
                thrown |-> NoError]

\* Mutant of Resume: there is no finally, the loading state is left on.
Resume_without_finally(pg, thrown, returned) ==
    LET d == displayResults(pg, returned)
    IN  IF thrown # NoError THEN displayError(pg, thrown.message)
        ELSE IF d.thrown # NoError
          THEN displayError(d.page, d.thrown.message)
        ELSE d.page

\* handleFormSubmit after its await, on page pg: assessBusiness threw or
\* returned; results or the message of what was thrown are shown, the
\* loading state ends.
Resume(pg, thrown, returned) ==
    LET d == displayResults(pg, returned)
    IN  setLoadingState(
            IF thrown # NoError THEN displayError(pg, thrown.message)
            ELSE IF d.thrown # NoError
              THEN displayError(d.page, d.thrown.message)
            ELSE d.page,
            FALSE)

\* The page once its scripts have run: window.ApiService is there; the
\* submit button, disabled by the first validateInputs(); the loading
\* state; the error container and its text; the results container; the
\* four counters; what the show-more handlers read; what is rendered.
IdlePage ==
    [apiService |-> TRUE, submitDisabled |-> TRUE, loading |-> FALSE,
     errorVisible |-> FALSE, errorContent |-> "", resultsVisible |-> FALSE,
     checklistShowCount |-> PAGE_SIZE, actionsShowCount |-> PAGE_SIZE,
     risksShowCount |-> PAGE_SIZE, tipsShowCount |-> PAGE_SIZE,
     currentChecklist |-> <<>>, currentActions |-> <<>>,
     currentAIReport |-> JsNoReport,
     shown |-> [checklist |-> NoView, actions |-> NoView, risks |-> NoView,
                tips |-> NoView]]

\* The fields of the form before anything is typed.
NoInputs == [area |-> Empty, seats |-> Empty, features |-> <<>>]

\* The submissions that may await their answer at once.
MaxInflight == 2

Slots == 1..MaxInflight

\* The retries of initializeApiService that are followed.
MaxRetries == 2

\* The scripts of the page: which runs next, whether window.CONFIG is
\* set, whether a retry of initializeApiService is scheduled, the retries
\* made.
StartBoot ==
    [pc |-> "service", config |-> FALSE, timer |-> FALSE, retries |-> 0]

LoadedBoot ==
    [pc |-> "loaded", config |-> TRUE, timer |-> FALSE, retries |-> 0]

----------------------------------------------------------------------------
(* The React form: DynamicForm and its schemas *)

\* f.min and f.max: a number, or absent.
NoLimit  == [set |-> FALSE, n |-> 0]
Limit(n) == [set |-> TRUE,  n |-> n]

NumberField(name, min, max, required) ==
    [name |-> name, type |-> "number", min |-> min, max |-> max,
     required |-> required, minSelected |-> 0, options |-> {}]

CheckboxGroup(name, required, minSelected, options) ==
    [name |-> name, type |-> "checkbox-group", min |-> NoLimit,
     max |-> NoLimit, required |-> required, minSelected |-> minSelected,
     options |-> options]

TextField(name, required) ==
    [name |-> name, type |-> "text", min |-> NoLimit, max |-> NoLimit,
     required |-> required, minSelected |-> 0, options |-> {}]

\* The schemas of businessTypes, and one with a maximum and a text field.
businessTypes ==
    [restaurant |->
         << NumberField("area", Limit(1), NoLimit, TRUE),
            NumberField("seats", Limit(0), NoLimit, TRUE),
            CheckboxGroup("features", TRUE, 1, {"gas", "meat", "delivery"}) >>,
     retail |-> << NumberField("area", Limit(1), NoLimit, TRUE) >>,
     gym |->
         << NumberField("area", Limit(1), NoLimit, TRUE),
            NumberField("seats", Limit(0), NoLimit, TRUE) >>,
     hall |->
         << NumberField("seats", Limit(0), Limit(1), TRUE),
            TextField("name", TRUE) >>]

Schemas == DOMAIN businessTypes

FieldsOf(schema) == Range(businessTypes[schema])

FieldNames(schema) == { f.name : f \in FieldsOf(schema) }

\* What a number input may hold: nothing, the digits of a whole number,
\* or letters.
Letters == [t |-> "letters", v |-> 0]

NumberTexts ==
    {Empty, Letters, Typed(-1), Typed(0), Typed(1), Typed(2)}

\* Number(val) of what a number input holds: Number("") is 0.
Number(val) ==
    CASE val.t = "digits" -> JsNum(val.v)
      [] val.t = "empty"  -> JsNum(0)
      [] OTHER            -> JsNaN

\* The field of a schema by its name.
Field(schema, n) == CHOOSE f \in FieldsOf(schema) : f.name = n

\* The state the component starts from, for a schema.
initial(schema) ==
    [n \in FieldNames(schema) |->
        IF Field(schema, n).type = "checkbox-group" THEN <<>> ELSE Empty]

\* The component: its schema, values and errors, and what the last
\* submit did with onSubmit.
NoCall == [called |-> FALSE, arg |-> [n \in {} |-> 0]]

IdleDyn ==
    [schema |-> "restaurant", values |-> initial("restaurant"),
     errors |-> [n \in {} |-> ""], onSubmit |-> NoCall]

\* What validate() puts in e for field f holding val; "" for nothing.
\* Mutant of NumberError: the limits are not looked at.
NumberError_unbounded(f, val) ==
    IF f.required /\ (val = Empty \/ Number(val) = JsNaN)
      THEN "required" ELSE ""

\* The check of the maximum comes after that of the minimum and
\* overwrites its message.
NumberError(f, val) ==
    LET n == Number(val)
    IN  IF f.required /\ (val = Empty \/ n = JsNaN) THEN "required"
        ELSE IF n # JsNaN /\ f.max.set /\ n.v > f.max.n THEN "max"
        ELSE IF n # JsNaN /\ f.min.set /\ n.v < f.min.n THEN "min"
        ELSE ""

GroupError(f, val) ==
    IF f.minSelected # 0 /\ Len(val) < f.minSelected THEN "minSelected"
    ELSE IF f.required /\ Len(val) = 0 THEN "choose one"
    ELSE ""

TextError(f, val) == IF f.required /\ val = Empty THEN "required" ELSE ""

FieldError(f, val) ==
    CASE f.type = "number"         -> NumberError(f, val)
      [] f.type = "checkbox-group" -> GroupError(f, val)
      [] f.type = "text"           -> TextError(f, val)

\* validate(): the errors, by field name.
validate(schema, values) ==
    [n \in { m \in FieldNames(schema) :
               FieldError(Field(schema, m), values[m]) # "" } |->
        FieldError(Field(schema, n), values[n])]

\* What submit passes to onSubmit: the number fields as numbers.
normalized(schema, values) ==
    [n \in FieldNames(schema) |->
        IF Field(schema, n).type = "number" THEN Number(values[n])
        ELSE values[n]]

----------------------------------------------------------------------------
(* The request: evaluate_restaurant, one action per step *)

\* The server before a request and no worker busy.
ServerIdle ==
    /\ pc = "idle"
    /\ payload = NoPayload
    /\ area = 0
    /\ seats = 0
    /\ features = {}
    /\ fire_track = "unset"
    /\ police_required = FALSE
    /\ police_set = FALSE
    /\ matched_rules = <<>>
    /\ ai_try = "none"
    /\ result = NoResult
    /\ outcome = "none"
    /\ error = ""
    /\ stages = {}
    /\ workers = [w \in Workers |-> IdleWorker]
    /\ load_log = ""

\* The browser with the page loaded and nothing typed or sent.
PageLoaded ==
    /\ api = IdleApi
    /\ page = IdlePage
    /\ inputs = NoInputs
    /\ inflight = [s \in Slots |-> FALSE]
    /\ boot = LoadedBoot

BrowserLoaded ==
    /\ PageLoaded
    /\ dyn = IdleDyn

Init ==
    /\ RESTAURANT_RULES \in Corpora
    /\ ServerIdle
    /\ BrowserLoaded

\* A request arrives with body p.
Receive(p) ==
    /\ pc = "idle"
    /\ pc' = "validate"
    /\ payload' = p
    /\ UNCHANGED <<RESTAURANT_RULES, area, seats, features, fire_track,
                   police_required, police_set, matched_rules, ai_try,
                   result, outcome, error, stages>>
    /\ UNCHANGED outside

\* Step 1: the body is validated; a bad one ends the request.
Validate ==
    /\ pc = "validate"
    /\ LET v == ValidateInput(payload)
       IN  /\ area' = v.area
           /\ seats' = v.seats
           /\ features' = v.features
           /\ error' = v.msg
           /\ outcome' = IF v.verdict = "ok" THEN "none" ELSE v.verdict
           /\ pc' = IF v.verdict = "ok" THEN "fire" ELSE "done"
    /\ stages' = stages \cup {"validate"}
    /\ UNCHANGED <<RESTAURANT_RULES, payload, fire_track, police_required,
                   police_set, matched_rules, ai_try, result>>
    /\ UNCHANGED outside

\* Step 2: the fire track.
FireTrack ==
    /\ pc = "fire"
    /\ fire_track' = FireTrackOf(area, seats)
    /\ pc' = "police"
    /\ stages' = stages \cup {"classify"}
    /\ UNCHANGED <<RESTAURANT_RULES, payload, area, seats, features,
                   police_required, police_set, matched_rules, ai_try,
                   result, outcome, error>>
    /\ UNCHANGED outside

\* Step 3: the police requirement.
Police ==
    /\ pc = "police"
    /\ police_required' = PoliceRequiredOf(seats, features)
    /\ police_set' = TRUE
    /\ pc' = "match"
    /\ UNCHANGED <<RESTAURANT_RULES, payload, area, seats, features,
                   fire_track, matched_rules, ai_try, result, outcome,
                   error, stages>>
    /\ UNCHANGED outside

\* Step 4: the corpus is filtered; summary and checklist enter the body.
Match ==
    /\ pc = "match"
    /\ LET m == MatchedRules(Profile(area, seats, features), RESTAURANT_RULES)
       IN  /\ matched_rules' = m
           /\ result' =
                [result EXCEPT
                   !.summary = [area |-> area, seats |-> seats,
                                features |-> features,
                                fire_track |-> fire_track,
                                police |-> police_required],
                   !.checklist = RuleIds(m)]
    /\ pc' = "ai_attempt"
    /\ stages' = stages \cup {"match"}
    /\ UNCHANGED <<RESTAURANT_RULES, payload, area, seats, features,
                   fire_track, police_required, police_set, ai_try,
                   outcome, error>>
    /\ UNCHANGED outside

\* Step 5, the try block: the AI collaborator is called and does o.
AIAttempt(o) ==
    /\ pc = "ai_attempt"
    /\ ai_try' = o
    /\ stages' = stages \cup {"ai_attempt"}
    /\ IF ~ Raises(o)
         THEN /\ pc' = "success"
              /\ UNCHANGED <<outcome, error>>
       ELSE IF ExceptException(o)
         THEN /\ pc' = "fallback"
              /\ UNCHANGED <<outcome, error>>
         ELSE /\ pc' = "done"
              /\ outcome' = "raised"
              /\ error' = o
    /\ UNCHANGED <<RESTAURANT_RULES, payload, area, seats, features,
                   fire_track, police_required, police_set, matched_rules,
                   result>>
    /\ UNCHANGED outside

\* Mutant of Success: the try block runs on into the except block.
Success_falls_through ==
    /\ pc = "success"
    /\ result' =
         [result EXCEPT
            !.ai_report = generate_ai_report(Profile(area, seats, features),
                                             matched_rules)]
    /\ pc' = "fallback"
    /\ stages' = stages \cup {"success"}
    /\ UNCHANGED <<RESTAURANT_RULES, payload, area, seats, features,
                   fire_track, police_required, police_set, matched_rules,
                   ai_try, outcome, error>>
    /\ UNCHANGED outside

\* Step 5, the call returned: the AI report enters the body.
Success ==
    /\ pc = "success"
    /\ result' =
         [result EXCEPT
            !.ai_report = generate_ai_report(Profile(area, seats, features),
                                             matched_rules)]
    /\ outcome' = "ok"
    /\ pc' = "done"
    /\ stages' = stages \cup {"success"}
    /\ UNCHANGED <<RESTAURANT_RULES, payload, area, seats, features,
                   fire_track, police_required, police_set, matched_rules,
                   ai_try, error>>
    /\ UNCHANGED outside

\* Mutant of Fallback: the except block flags the body but does not put
\* the local report into it.
Fallback_unassigned ==
    /\ pc = "fallback"
    /\ result' = [result EXCEPT !.ai_fallback = TRUE]
    /\ outcome' = "ok"
    /\ pc' = "done"
    /\ stages' = stages \cup {"fallback"}
    /\ UNCHANGED <<RESTAURANT_RULES, payload, area, seats, features,
                   fire_track, police_required, police_set, matched_rules,
                   ai_try, error>>
    /\ UNCHANGED outside

\* Step 5, the except block: the local report enters the body, flagged.
Fallback ==
    /\ pc = "fallback"
    /\ result' =
         [result EXCEPT
            !.ai_report = create_basic_report(Profile(area, seats, features),
                                              matched_rules),
            !.ai_fallback = TRUE]
    /\ outcome' = "ok"
    /\ pc' = "done"
    /\ stages' = stages \cup {"fallback"}
    /\ UNCHANGED <<RESTAURANT_RULES, payload, area, seats, features,
                   fire_track, police_required, police_set, matched_rules,
                   ai_try, error>>
    /\ UNCHANGED outside

\* The response is sent; the locals of the request are gone.
Respond ==
    /\ pc = "done"
    /\ pc' = "idle"
    /\ payload' = NoPayload
    /\ area' = 0
    /\ seats' = 0
    /\ features' = {}
    /\ fire_track' = "unset"
    /\ police_required' = FALSE
    /\ police_set' = FALSE
    /\ matched_rules' = <<>>
    /\ ai_try' = "none"
    /\ result' = NoResult
    /\ outcome' = "none"
    /\ error' = ""
    /\ stages' = {}
    /\ UNCHANGED RESTAURANT_RULES
    /\ UNCHANGED outside

Next ==
    \/ \E p \in Payloads : Receive(p)
    \/ Validate
    \/ FireTrack
    \/ Police
    \/ Match
    \/ \E o \in AIOutcomes : AIAttempt(o)
    \/ Success
    \/ Fallback
    \/ Respond

Spec == Init /\ [][Next]_vars

----------------------------------------------------------------------------
(* The request under fair scheduling: the handler is sequential code, so  *)
(* a step that can run does run; the AI call is bounded by its timeout,   *)
(* so it does come back, with a report or with a failure.                 *)

\* One corpus is enough here: a rule with a condition and one without.
InitLive ==
    /\ Init
    /\ RESTAURANT_RULES =
         <<RuleWith(1, [area_max |-> FromInt(FIRE_AREA_MAX)]), RuleBare(2)>>

Fairness ==
    /\ WF_vars(Validate)
    /\ WF_vars(FireTrack)
    /\ WF_vars(Police)
    /\ WF_vars(Match)
    /\ WF_vars(\E o \in AIOutcomes : AIAttempt(o))
    /\ WF_vars(Success)
    /\ WF_vars(Fallback)

SpecLive == InitLive /\ [][Next]_vars /\ Fairness

----------------------------------------------------------------------------
(* Requests side by side with loads of the rules.  A worker runs steps 2  *)
(* to 4 of evaluate_restaurant on a validated profile, the loop of step 4 *)
(* one rule at a time; load_restaurant_rules may run between any two      *)
(* steps.                                                                 *)

\* What the rules file may hold.
FileRules ==
    { <<RuleWith(1, [area_max |-> FromInt(FIRE_AREA_MAX)]), RuleBare(2)>>,
      <<RuleWith(1, [features_any |-> <<"gas", "alcohol">>]),
        RuleWith(2, [seats_max |-> FromInt(POLICE_SEATS),
                     features_all |-> <<"alcohol", "delivery">>])>> }

\* What a load finds at rules_path: a file that parses, no file, or a
\* file that cannot be read or parsed.
LoadSources ==
    { [kind |-> "file", rules |-> c] : c \in FileRules }
    \cup { [kind |-> "absent", rules |-> <<>>],
           [kind |-> "unreadable", rules |-> <<>>] }

\* Validated profiles: 100 square metres, 30 seats, gas; 200 square
\* metres, 250 seats, alcohol.
ConcProfiles ==
    { Profile(FromInt(100), 30, {"gas"}),
      Profile(FromInt(200), 250, {"alcohol"}) }

\* Mutant of ReaderListAfterLoad: the load refills the list in place
\* (RESTAURANT_RULES[:] = ...), under the readers iterating it.
ReaderListAfterLoad_in_place(list, loaded) == loaded

\* The list a reader already iterates, after a load: the assignment binds
\* the global name to the new list and leaves the old list as it is.
ReaderListAfterLoad(list, loaded) == list

\* Mutant of load_restaurant_rules: a failed load leaves the store empty.
load_restaurant_rules_empty(src) ==
    /\ RESTAURANT_RULES' =
         CASE src.kind = "file"   -> src.rules
           [] src.kind = "absent" -> get_fallback_rules
           [] OTHER               -> <<>>
    /\ load_log' =
         IF src.kind = "unreadable" THEN "Error loading rules" ELSE ""
    /\ workers' =
         [w \in Workers |->
            [workers[w] EXCEPT
               !.rules = IF workers[w].pc = "match"
                           THEN ReaderListAfterLoad(@, RESTAURANT_RULES')
                           ELSE @]]
    /\ UNCHANGED <<requestVars, clientVars>>

\* load_restaurant_rules: the file's rules if it is there and parses, the
\* built-in rules otherwise; an exception is printed and goes no further.
load_restaurant_rules(src) ==
    /\ RESTAURANT_RULES' =
         IF src.kind = "file" THEN src.rules ELSE get_fallback_rules
    /\ load_log' =
         IF src.kind = "unreadable" THEN "Error loading rules" ELSE ""
    /\ workers' =
         [w \in Workers |->
            [workers[w] EXCEPT
               !.rules = IF workers[w].pc = "match"
                           THEN ReaderListAfterLoad(@, RESTAURANT_RULES')
                           ELSE @]]
    /\ UNCHANGED <<requestVars, clientVars>>

\* A validated request reaches worker w.
Begin(w, p) ==
    /\ workers[w].pc = "idle"
    /\ workers' = [workers EXCEPT ![w].pc = "classify", ![w].profile = p]
    /\ UNCHANGED <<RESTAURANT_RULES, requestVars, load_log, clientVars>>

\* Steps 2 and 3: fire track and police requirement.
Classify(w) ==
    /\ workers[w].pc = "classify"
    /\ LET p == workers[w].profile
       IN  workers' =
             [workers EXCEPT
                ![w].summary =
                    [area |-> p.area, seats |-> p.seats,
                     features |-> p.features,
                     fire_track |-> FireTrackOf(p.area, p.seats),
                     police |-> PoliceRequiredOf(p.seats, p.features)],
                ![w].pc = "iterate"]
    /\ UNCHANGED <<RESTAURANT_RULES, requestVars, load_log, clientVars>>

\* Step 4 begins: the loop takes the list the global names now.
StartLoop(w) ==
    /\ workers[w].pc = "iterate"
    /\ workers' =
         [workers EXCEPT ![w].rules = RESTAURANT_RULES,
                         ![w].taken = RESTAURANT_RULES,
                         ![w].pos = 1,
                         ![w].pc = "match"]
    /\ UNCHANGED <<RESTAURANT_RULES, requestVars, load_log, clientVars>>

\* Mutant of Kept: the kept rules go to one list shared by the requests.
Kept_shared(ws, w, rule) ==
    [v \in Workers |->
        IF ws[v].pc = "match"
          THEN [ws[v] EXCEPT !.matched = Append(@, rule)]
          ELSE ws[v]]

\* The workers after w keeps a rule: it goes to w's own list.
Kept(ws, w, rule) == [ws EXCEPT ![w].matched = Append(@, rule)]

\* Step 4, one turn of the loop: the next rule of the list is tested.
MatchRule(w) ==
    /\ workers[w].pc = "match"
    /\ workers[w].pos <= Len(workers[w].rules)
    /\ LET rule == workers[w].rules[workers[w].pos]
           ws   == IF rule_matches(ConditionOf(rule), workers[w].profile)
                     THEN Kept(workers, w, rule)
                     ELSE workers
       IN  workers' = [ws EXCEPT ![w].pos = @ + 1]
    /\ UNCHANGED <<RESTAURANT_RULES, requestVars, load_log, clientVars>>

\* Step 4 ends: the list is exhausted, the checklist enters the body.
EndLoop(w) ==
    /\ workers[w].pc = "match"
    /\ workers[w].pos > Len(workers[w].rules)
    /\ workers' =
         [workers EXCEPT ![w].checklist = RuleIds(workers[w].matched),
                         ![w].pc = "done"]
    /\ UNCHANGED <<RESTAURANT_RULES, requestVars, load_log, clientVars>>

\* The response is sent; the worker is free again.
Reply(w) ==
    /\ workers[w].pc = "done"
    /\ workers' = [workers EXCEPT ![w] = IdleWorker]
    /\ UNCHANGED <<RESTAURANT_RULES, requestVars, load_log, clientVars>>

ConcInit ==
    /\ Init
    /\ RESTAURANT_RULES \in FileRules

ConcNext ==
    \/ \E w \in Workers, p \in ConcProfiles : Begin(w, p)
    \/ \E w \in Workers : Classify(w)
    \/ \E w \in Workers : StartLoop(w)
    \/ \E w \in Workers : MatchRule(w)
    \/ \E w \in Workers : EndLoop(w)
    \/ \E w \in Workers : Reply(w)
    \/ \E src \in LoadSources : load_restaurant_rules(src)

SpecConc == ConcInit /\ [][ConcNext]_vars

----------------------------------------------------------------------------
(* The browser: a call of ApiService.assessBusiness, made by the form     *)
(* handler of the page or by any other script, one at a time.             *)

\* handleFormSubmit, up to its await: the form is read and checked, the
\* page is put in its loading state, the service is called.
handleFormSubmit(form) ==
    /\ api.pc = "idle"
    /\ LET formData == collectFormData(form)
           shown    == [setLoadingState(page, TRUE)
                          EXCEPT !.resultsVisible = FALSE,
                                 !.errorVisible = FALSE]
       IN  IF ~ validateFormData(formData)
             THEN /\ page' = displayError(page, "invalid input")
                  /\ UNCHANGED api
           ELSE IF ~ page.apiService
             THEN /\ page' = Resume(shown, Err("Error",
                                                "API service unavailable"),
                                    NoBody)
                  /\ UNCHANGED api
           ELSE /\ page' = shown
                /\ api' = [IdleApi EXCEPT !.pc = "validate",
                                          !.caller = "form",
                                          !.data = formData]
    /\ UNCHANGED <<RESTAURANT_RULES, requestVars, workers, load_log,
                   formVars>>

\* Another script calls assessBusiness(businessData).
assessBusiness(businessData) ==
    /\ api.pc = "idle"
    /\ api' = [IdleApi EXCEPT !.pc = "validate", !.caller = "script",
                              !.data = businessData]
    /\ UNCHANGED <<RESTAURANT_RULES, requestVars, workers, load_log, page,
                   formVars>>

\* assessBusiness, to the fetch: validateBusinessData throws and the call
\* is over, or the request goes on the network.
ValidateAndSend ==
    /\ api.pc = "validate"
    /\ LET v == validateBusinessData(api.data)
       IN  IF v.thrown # NoError
             THEN api' = [api EXCEPT !.pc = "settled", !.thrown = v.thrown]
             ELSE api' = [api EXCEPT !.pc = "fetch", !.warned = v.warned,
                                     !.sent = @ + 1]
    /\ UNCHANGED <<RESTAURANT_RULES, requestVars, workers, load_log, page,
                   formVars>>

\* The fetch settles with outcome r; fetchWithErrorHandling returns or
\* throws, and so does assessBusiness.
FetchSettles(r) ==
    /\ api.pc = "fetch"
    /\ LET f == fetchWithErrorHandling(r)
       IN  api' = [api EXCEPT !.pc = "settled", !.response = r,
                              !.thrown = f.thrown, !.returned = f.returned]
    /\ UNCHANGED <<RESTAURANT_RULES, requestVars, workers, load_log, page,
                   formVars>>

\* handleFormSubmit, after its await: results or the error's message are
\* shown, the loading state ends.
FormSettled ==
    /\ api.pc = "settled"
    /\ api.caller = "form"
    /\ page' = Resume(page, api.thrown, api.returned)
    /\ api' = [api EXCEPT !.pc = "idle"]
    /\ UNCHANGED <<RESTAURANT_RULES, requestVars, workers, load_log,
                   formVars>>

\* The other script has its answer.
ScriptSettled ==
    /\ api.pc = "settled"
    /\ api.caller = "script"
    /\ api' = [api EXCEPT !.pc = "idle"]
    /\ UNCHANGED <<RESTAURANT_RULES, requestVars, workers, load_log, page,
                   formVars>>

ClientNext ==
    \/ \E form \in FormInputs : handleFormSubmit(form)
    \/ \E businessData \in BusinessData : assessBusiness(businessData)
    \/ ValidateAndSend
    \/ \E r \in FetchOutcomes : FetchSettles(r)
    \/ FormSettled
    \/ ScriptSettled

\* The server side stands still here; one corpus is enough.
ClientInit == InitLive

SpecClient == ClientInit /\ [][ClientNext]_vars

----------------------------------------------------------------------------
(* The browser: the page of script.js, from the loading of its scripts    *)
(* on.  The user types, submits and clicks while earlier submissions      *)
(* await their answers.                                                   *)

\* What the user types or ticks.
PageInputs ==
    [area     : {Empty, Typed(80)},
     seats    : {Empty, Typed(30)},
     features : {<<>>, <<"gas">>}]

\* The assessments the server answers with, and what a fetch of the page
\* may do.
Assessments ==
    { Assessment(0, 0),
      Assessment(3, PAGE_SIZE + 2),
      Assessment(2 * PAGE_SIZE + 5, PAGE_SIZE + 2) }

PageOutcomes ==
    { [NoResponse EXCEPT !.kind = "rejected", !.text = "Failed to fetch"],
      [NoResponse EXCEPT !.kind = "response", !.status = 500,
                         !.body = ErrorBody("AI is required", "")] }
    \cup
    { [NoResponse EXCEPT !.kind = "response", !.ok = TRUE, !.status = 200,
                         !.body = b] :
        b \in Assessments \cup {ErrorBody("", "try later")} }

\* Mutant of initializeApiService: without window.CONFIG it gives up.
initializeApiService_once(b, pg) ==
    IF b.config
      THEN [boot |-> [b EXCEPT !.timer = FALSE],
            page |-> [pg EXCEPT !.apiService = TRUE]]
      ELSE [boot |-> [b EXCEPT !.timer = FALSE], page |-> pg]

\* initializeApiService(), with the scripts at b and the page pg: the
\* service is made when window.CONFIG is there, else the function is
\* scheduled again.
initializeApiService(b, pg) ==
    IF b.config
      THEN [boot |-> [b EXCEPT !.timer = FALSE],
            page |-> [pg EXCEPT !.apiService = TRUE]]
      ELSE [boot |-> [b EXCEPT !.timer = TRUE], page |-> pg]

pageFrame == <<RESTAURANT_RULES, requestVars, workers, load_log, api, dyn>>

\* The script of the service runs: the class is declared and
\* initializeApiService() is called for the first time.
ServiceScript ==
    /\ boot.pc = "service"
    /\ LET a == initializeApiService(boot, page)
       IN  /\ boot' = [a.boot EXCEPT !.pc = "config"]
           /\ page' = a.page
    /\ UNCHANGED <<pageFrame, inputs, inflight>>

\* The configuration script runs: window.CONFIG is set.
ConfigScript ==
    /\ boot.pc = "config"
    /\ boot' = [boot EXCEPT !.pc = "dom", !.config = TRUE]
    /\ UNCHANGED <<pageFrame, page, inputs, inflight>>

\* DOMContentLoaded: the listeners are set and validateInputs() is called.
DOMContentLoaded ==
    /\ boot.pc = "dom"
    /\ boot' = [boot EXCEPT !.pc = "loaded"]
    /\ page' = validateInputs(page, inputs)
    /\ UNCHANGED <<pageFrame, inputs, inflight>>

\* The timer of 100 ms fires: initializeApiService() is called again.
RetryTimer ==
    /\ boot.timer
    /\ boot.config \/ boot.retries < MaxRetries
    /\ LET a == initializeApiService(boot, page)
       IN  /\ boot' = [a.boot EXCEPT !.retries = @ + 1]
           /\ page' = a.page
    /\ UNCHANGED <<pageFrame, inputs, inflight>>

\* An input event on the area or the seats field, a change event on the
\* feature boxes: validateInputs() is called.
InputEvent(form) ==
    /\ boot.pc = "loaded"
    /\ form # inputs
    /\ \/ form.seats = inputs.seats /\ form.features = inputs.features
       \/ form.area = inputs.area /\ form.features = inputs.features
       \/ form.area = inputs.area /\ form.seats = inputs.seats
    /\ inputs' = form
    /\ page' = validateInputs(page, form)
    /\ UNCHANGED <<pageFrame, inflight, boot>>

\* The first slot that is free.
FreeSlot ==
    CHOOSE s \in Slots : ~ inflight[s] /\ \A t \in 1..(s - 1) : inflight[t]

\* The user submits the form: handleFormSubmit, up to its await.  A check
\* that fails, a service that is not there and a refusal of
\* validateBusinessData end the handler before any other event.
SubmitForm ==
    /\ boot.pc = "loaded"
    /\ ~ page.submitDisabled
    /\ \E s \in Slots : ~ inflight[s]
    /\ LET formData == collectFormData(inputs)
           shown    == [setLoadingState(page, TRUE)
                          EXCEPT !.resultsVisible = FALSE,
                                 !.errorVisible = FALSE]
           v        == validateBusinessData(formData)
       IN  IF ~ validateFormData(formData)
             THEN /\ page' = displayError(page, "invalid input")
                  /\ UNCHANGED inflight
           ELSE IF ~ page.apiService
             THEN /\ page' = Resume(shown, Err("Error",
                                                "API service unavailable"),
                                    NoBody)
                  /\ UNCHANGED inflight
           ELSE IF v.thrown # NoError
             THEN /\ page' = Resume(shown, v.thrown, NoBody)
                  /\ UNCHANGED inflight
           ELSE /\ page' = shown
                /\ inflight' = [inflight EXCEPT ![FreeSlot] = TRUE]
    /\ UNCHANGED <<pageFrame, inputs, boot>>

\* The fetch of submission s settles with outcome r: handleFormSubmit
\* runs from its await to its end.
Answer(s, r) ==
    /\ inflight[s]
    /\ LET f == fetchWithErrorHandling(r)
       IN  page' = Resume(page, f.thrown, f.returned)
    /\ inflight' = [inflight EXCEPT ![s] = FALSE]
    /\ UNCHANGED <<pageFrame, inputs, boot>>

\* Math.min(a, b)
MathMin(a, b) == IF a < b THEN a ELSE b

\* The handlers of the buttons under the checklist, on page pg.
\* Mutant of showMoreChecklist: the counter goes up by a page whatever
\* the length of the checklist.
showMoreChecklist_past_end(pg) ==
    displayChecklist(
        [pg EXCEPT !.checklistShowCount = pg.checklistShowCount + PAGE_SIZE],
        pg.currentChecklist)

showMoreChecklist(pg) ==
    displayChecklist(
        [pg EXCEPT !.checklistShowCount =
             MathMin(pg.checklistShowCount + PAGE_SIZE,
                     Len(pg.currentChecklist))],
        pg.currentChecklist)

showAllChecklist(pg) ==
    displayChecklist(
        [pg EXCEPT !.checklistShowCount = Len(pg.currentChecklist)],
        pg.currentChecklist)

showLessChecklist(pg) ==
    displayChecklist([pg EXCEPT !.checklistShowCount = PAGE_SIZE],
                     pg.currentChecklist)

\* The handlers of the buttons under the actions, the risks and the tips.
showMoreActions(pg) ==
    displayAIReport(
        [pg EXCEPT !.actionsShowCount =
             MathMin(pg.actionsShowCount + PAGE_SIZE,
                     Len(pg.currentActions))],
        pg.currentAIReport)

showAllActions(pg) ==
    displayAIReport([pg EXCEPT !.actionsShowCount = Len(pg.currentActions)],
                    pg.currentAIReport)

showLessActions(pg) ==
    displayAIReport([pg EXCEPT !.actionsShowCount = PAGE_SIZE],
                    pg.currentAIReport)

showMoreRisks(pg) ==
    displayAIReport(
        [pg EXCEPT !.risksShowCount =
             MathMin(pg.risksShowCount + PAGE_SIZE,
                     Len(pg.currentAIReport.potential_risks))],
        pg.currentAIReport)

showAllRisks(pg) ==
    displayAIReport(
        [pg EXCEPT !.risksShowCount =
             Len(pg.currentAIReport.potential_risks)],
        pg.currentAIReport)

showLessRisks(pg) ==
    displayAIReport([pg EXCEPT !.risksShowCount = PAGE_SIZE],
                    pg.currentAIReport)

showMoreTips(pg) ==
    displayAIReport(
        [pg EXCEPT !.tipsShowCount =
             MathMin(pg.tipsShowCount + PAGE_SIZE,
                     Len(pg.currentAIReport.tips))],
        pg.currentAIReport)

showAllTips(pg) ==
    displayAIReport(
        [pg EXCEPT !.tipsShowCount = Len(pg.currentAIReport.tips)],
        pg.currentAIReport)

showLessTips(pg) ==
    displayAIReport([pg EXCEPT !.tipsShowCount = PAGE_SIZE],
                    pg.currentAIReport)

Sections == {"checklist", "actions", "risks", "tips"}

Controls == {"more", "all", "less"}

\* The onclick of the button `control` under `section`.
OnClick(section, control, pg) ==
    CASE section = "checklist" /\ control = "more" -> showMoreChecklist(pg)
      [] section = "checklist" /\ control = "all"  -> showAllChecklist(pg)
      [] section = "checklist" /\ control = "less" -> showLessChecklist(pg)
      [] section = "actions"   /\ control = "more" -> showMoreActions(pg)
      [] section = "actions"   /\ control = "all"  -> showAllActions(pg)
      [] section = "actions"   /\ control = "less" -> showLessActions(pg)
      [] section = "risks"     /\ control = "more" -> showMoreRisks(pg)
      [] section = "risks"     /\ control = "all"  -> showAllRisks(pg)
      [] section = "risks"     /\ control = "less" -> showLessRisks(pg)
      [] section = "tips"      /\ control = "more" -> showMoreTips(pg)
      [] section = "tips"      /\ control = "all"  -> showAllTips(pg)
      [] section = "tips"      /\ control = "less" -> showLessTips(pg)

\* The user clicks a button that is rendered and visible.
Click(section, control) ==
    /\ page.resultsVisible
    /\ control \in page.shown[section].controls
    /\ page' = OnClick(section, control, page)
    /\ UNCHANGED <<pageFrame, inputs, inflight, boot>>

\* The page with the buttons under the sections left alone.
SubmitNext ==
    \/ ServiceScript
    \/ ConfigScript
    \/ DOMContentLoaded
    \/ RetryTimer
    \/ \E form \in PageInputs : InputEvent(form)
    \/ SubmitForm
    \/ \E s \in Slots, r \in PageOutcomes : Answer(s, r)

PageNext ==
    \/ SubmitNext
    \/ \E section \in Sections, control \in Controls : Click(section, control)

\* The page before its scripts run: no service yet; the button as the
\* markup has it.
PageInit ==
    /\ RESTAURANT_RULES =
         <<RuleWith(1, [area_max |-> FromInt(FIRE_AREA_MAX)]), RuleBare(2)>>
    /\ ServerIdle
    /\ api = IdleApi
    /\ page \in { [IdlePage EXCEPT !.apiService = FALSE,
                                   !.submitDisabled = d] : d \in BOOLEAN }
    /\ inputs = NoInputs
    /\ inflight = [s \in Slots |-> FALSE]
    /\ boot = StartBoot
    /\ dyn = IdleDyn

SpecPage == PageInit /\ [][PageNext]_vars

\* The scripts run, a timer that is set fires, a fetch settles.
PageFairness ==
    /\ WF_vars(ServiceScript)
    /\ WF_vars(ConfigScript)
    /\ WF_vars(DOMContentLoaded)
    /\ WF_vars(RetryTimer)
    /\ \A s \in Slots : WF_vars(\E r \in PageOutcomes : Answer(s, r))

SpecPageLive == PageInit /\ [][SubmitNext]_vars /\ PageFairness

----------------------------------------------------------------------------
(* The React form: DynamicForm rendered for one schema *)

formFrame ==
    <<RESTAURANT_RULES, requestVars, workers, load_log, api, page, inputs,
      inflight, boot>>

\* The user types val in the number or text input `name`.
setField(name, val) ==
    /\ name \in FieldNames(dyn.schema)
    /\ Field(dyn.schema, name).type \in {"number", "text"}
    /\ Field(dyn.schema, name).type = "text" => val \in {Empty, Letters}
    /\ dyn' = [dyn EXCEPT !.values[name] = val]
    /\ UNCHANGED formFrame

\* The values of array a without x.
Without(a, x) == SelectSeq(a, LAMBDA y : y # x)

\* The user ticks or unticks the box optionValue of the group `name`.
toggleCheckbox(name, optionValue) ==
    /\ name \in FieldNames(dyn.schema)
    /\ Field(dyn.schema, name).type = "checkbox-group"
    /\ optionValue \in Field(dyn.schema, name).options
    /\ LET current == dyn.values[name]
       IN  dyn' = [dyn EXCEPT !.values[name] =
                      IF optionValue \in Range(current)
                        THEN Without(current, optionValue)
                        ELSE Append(current, optionValue)]
    /\ UNCHANGED formFrame

\* The form is submitted: validate(), and onSubmit if it finds nothing.
submit ==
    /\ LET e == validate(dyn.schema, dyn.values)
       IN  dyn' = [dyn EXCEPT
                     !.errors = e,
                     !.onSubmit =
                        IF DOMAIN e = {}
                          THEN [called |-> TRUE,
                                arg |-> normalized(dyn.schema, dyn.values)]
                          ELSE NoCall]
    /\ UNCHANGED formFrame

FormNext ==
    \/ \E name \in {"area", "seats", "name"}, val \in NumberTexts :
          setField(name, val)
    \/ \E name \in {"features"}, optionValue \in {"gas", "meat", "delivery"} :
          toggleCheckbox(name, optionValue)
    \/ submit

\* The component is rendered for one of the schemas.
FormInit ==
    /\ RESTAURANT_RULES =
         <<RuleWith(1, [area_max |-> FromInt(FIRE_AREA_MAX)]), RuleBare(2)>>
    /\ ServerIdle
    /\ PageLoaded
    /\ dyn \in { [IdleDyn EXCEPT !.schema = sc, !.values = initial(sc)] :
                    sc \in Schemas }

SpecForm == FormInit /\ [][FormNext]_vars

----------------------------------------------------------------------------
(* The matcher alone: step 4 run on every profile of MatchPayloads        *)
(* against every one-rule corpus whose condition is in AllConds.          *)

\* A condition with all six keys and one key more, and every restriction
\* of one to a subset of its keys.  Bounds: 150, 150.5, 149.5 square
\* metres; 50, 51, 49 seats.
FullConds ==
    [area_min     : {FromInt(150), 301},
     area_max     : {FromInt(150), 299},
     seats_min    : {FromInt(50), FromInt(51)},
     seats_max    : {FromInt(50), FromInt(49)},
     features_any : {<<>>, <<"gas">>, <<"gas", "alcohol">>},
     features_all : {<<>>, <<"gas">>, <<"gas", "alcohol">>},
     floor_min    : {FromInt(1)}]

\* A key rule_matches does not know.
UnknownKeys == {"floor_min"}

AllConds ==
    { [k \in K |-> f[k]] :
        K \in SUBSET (CondKeys \cup UnknownKeys), f \in FullConds }

\* Valid bodies around the bounds: 149.5, 150, 150.5 square metres; 49,
\* 50, 51 seats.
MatchPayloads ==
    [area     : {Num(299), Num(300), Num(301)},
     seats    : {Num(98), Num(100), Num(102)},
     features : {FList(<<>>), FList(<<"gas">>), FList(<<"alcohol">>),
                 FList(<<"gas", "alcohol">>), FList(<<"hood">>),
                 FList(<<"gas", "hood">>)}]

InitMatch ==
    /\ RESTAURANT_RULES \in
         { <<RuleWith(1, c)>> : c \in AllConds } \cup { <<RuleBare(1)>> }
    /\ pc = "match"
    /\ payload \in MatchPayloads
    /\ LET v == ValidateInput(payload)
       IN  /\ v.verdict = "ok"
           /\ area = v.area
           /\ seats = v.seats
           /\ features = v.features
           /\ fire_track = FireTrackOf(v.area, v.seats)
           /\ police_required = PoliceRequiredOf(v.seats, v.features)
    /\ police_set = TRUE
    /\ matched_rules = <<>>
    /\ ai_try = "none"
    /\ result = NoResult
    /\ outcome = "none"
    /\ error = ""
    /\ stages = {"validate", "classify"}
    /\ workers = [w \in Workers |-> IdleWorker]
    /\ load_log = ""
    /\ BrowserLoaded

NextMatch == Match

SpecMatch == InitMatch /\ [][NextMatch]_vars

----------------------------------------------------------------------------
(* Properties *)

\* The profile of the request in progress.
CurrentProfile == Profile(area, seats, features)

\* The condition a rule carries, the empty one when it has none.
RuleCond(rule) == IF "if" \in DOMAIN rule THEN rule["if"] ELSE EmptyCond

\* Whether the clause of key k with value b holds of profile p.
ClauseHolds(k, b, p) ==
    CASE k = "area_min"     -> b <= p.area
      [] k = "area_max"     -> p.area <= b
      [] k = "seats_min"    -> b <= FromInt(p.seats)
      [] k = "seats_max"    -> FromInt(p.seats) <= b
      [] k = "features_any" -> \E x \in Range(b) : x \in p.features
      [] k = "features_all" -> \A x \in Range(b) : x \in p.features
      [] OTHER              -> TRUE

\* Profile p satisfies condition c: every clause present holds.
Satisfies(c, p) == \A k \in DOMAIN c : ClauseHolds(k, c[k], p)

\* Sequence m is a subsequence of sequence c: its elements are elements of
\* c taken at strictly increasing positions.
IsSubsequence(m, c) ==
    \E f \in [DOMAIN m -> DOMAIN c] :
        /\ \A i \in DOMAIN m : m[i] = c[f[i]]
        /\ \A i, j \in DOMAIN m : i < j => f[i] < f[j]

MatchDone == "match" \in stages

\* C1: once the matcher has run, the matched rules are a subsequence of
\* the corpus (same rules, same relative order, none twice), every matched
\* rule has a condition the profile satisfies, and no rule of the corpus
\* whose condition the profile satisfies is left out.
C1_MatchedIsStableFilter ==
    MatchDone =>
        /\ IsSubsequence(matched_rules, RESTAURANT_RULES)
        /\ \A i \in DOMAIN matched_rules :
               Satisfies(RuleCond(matched_rules[i]), CurrentProfile)
        /\ \A j \in DOMAIN RESTAURANT_RULES :
               Satisfies(RuleCond(RESTAURANT_RULES[j]), CurrentProfile)
                   => \E i \in DOMAIN matched_rules :
                          matched_rules[i] = RESTAURANT_RULES[j]
        /\ result.checklist = RuleIds(matched_rules)

\* C1 witness: a corpus of two rules of which the matcher dropped the
\* first and kept the second.
C1_Witness ==
    /\ MatchDone
    /\ Len(RESTAURANT_RULES) = 2
    /\ matched_rules = <<RESTAURANT_RULES[2]>>
    /\ ~ Satisfies(RuleCond(RESTAURANT_RULES[1]), CurrentProfile)

\* The single rule of the corpus of the matcher's own specification.
TheRule == RESTAURANT_RULES[1]

\* Whether that rule was matched.
TheRuleMatched == matched_rules = <<TheRule>>

\* C2: the rule is matched exactly when every clause present in its
\* condition holds of the profile; a rule whose condition is empty or
\* absent is matched by every profile.
C2_MatchIffAllPresentClauses ==
    MatchDone =>
        /\ matched_rules \in {<<>>, <<TheRule>>}
        /\ TheRuleMatched <=> Satisfies(RuleCond(TheRule), CurrentProfile)
        /\ DOMAIN RuleCond(TheRule) = {} => TheRuleMatched

\* C2 witness: a condition with all six keys, each of which holds, matched.
C2_Witness ==
    /\ MatchDone
    /\ "if" \in DOMAIN TheRule
    /\ DOMAIN TheRule["if"] = CondKeys
    /\ TheRuleMatched

\* The value of the profile a numeric key bounds.
Bounded(k, p) == IF k \in {"area_min", "area_max"} THEN p.area
                 ELSE FromInt(p.seats)

\* Whether value v lies strictly on the excluded side of bound b of key k.
Beyond(k, b, v) == IF k \in {"area_min", "seats_min"} THEN v < b ELSE v > b

\* C3: numeric bounds are inclusive. A profile strictly beyond a bound that
\* is present is not matched; a profile exactly on a bound, whose other
\* clauses hold, is matched.
C3_BoundsInclusive ==
    MatchDone =>
        LET c == RuleCond(TheRule)
            p == CurrentProfile
        IN  \A k \in DOMAIN c \cap
                     {"area_min", "area_max", "seats_min", "seats_max"} :
                /\ Beyond(k, c[k], Bounded(k, p)) => ~ TheRuleMatched
                /\ ( /\ Bounded(k, p) = c[k]
                     /\ \A o \in DOMAIN c \ {k} : ClauseHolds(o, c[o], p) )
                   => TheRuleMatched

\* C3 witness: a rule whose only clause is area_max = 150, matched by a
\* profile of exactly 150 square metres.
C3_Witness ==
    /\ MatchDone
    /\ RuleCond(TheRule) = [area_max |-> FromInt(150)]
    /\ area = FromInt(150)
    /\ TheRuleMatched

\* C4: a rule whose only clause is features_any = [x] is matched iff x is a
\* feature of the profile; a rule whose only clause is features_all = [x, y]
\* is matched iff both x and y are.
C4_FeatureClauses ==
    MatchDone =>
        LET c == RuleCond(TheRule)
        IN  /\ (DOMAIN c = {"features_any"} /\ Len(c["features_any"]) = 1)
                 => (TheRuleMatched <=> c["features_any"][1] \in features)
            /\ (DOMAIN c = {"features_all"} /\ Len(c["features_all"]) = 2)
                 => (TheRuleMatched <=>
                        /\ c["features_all"][1] \in features
                        /\ c["features_all"][2] \in features)

\* C4 witness: features_all = [gas, alcohol] alone, not matched by a
\* profile that has gas only.
C4_Witness ==
    /\ MatchDone
    /\ RuleCond(TheRule) = [features_all |-> <<"gas", "alcohol">>]
    /\ features = {"gas"}
    /\ ~ TheRuleMatched

\* C5: once the fire track is computed it is "declaration" exactly when
\* area <= 150 and seats <= 50, "full-review" otherwise, and it is computed
\* for every profile that passed validation.
C5_FireTrack ==
    /\ pc \in {"police", "match", "ai_attempt", "success", "fallback"}
          => fire_track # "unset"
    /\ fire_track # "unset" =>
          /\ fire_track \in {"declaration", "full-review"}
          /\ fire_track = "declaration"
                <=> (area <= FromInt(150) /\ seats <= 50)
    /\ MatchDone => result.summary.fire_track = fire_track

\* C5 witness: 150 square metres and 50 seats, on the declaration track.
C5_Witness ==
    /\ area = FromInt(150)
    /\ seats = 50
    /\ fire_track = "declaration"

\* C6: once computed, police_required is true exactly when alcohol is a
\* feature or seats > 200.
C6_PoliceRequired ==
    /\ police_set =>
          (police_required <=> ("alcohol" \in features \/ seats > 200))
    /\ MatchDone => result.summary.police = police_required

\* C6 witness: exactly 200 seats and no alcohol: no police approval.
C6_Witness ==
    /\ police_set
    /\ seats = 200
    /\ "alcohol" \notin features
    /\ ~ police_required

\* Whether a raw value can be read as a number.
Coercible(x) == x.t \in {"num", "numstr"}

ValidateDone == "validate" \in stages

\* Whether the request was turned away with a ValidationError.
Rejected == outcome = "error"

\* Whether the request passed validation.
Accepted == ValidateDone /\ outcome \notin {"error", "raised"}

\* C7 as claimed: validation rejects with a ValidationError every body in
\* which a required field is missing, area or seats is no number,
\* area <= 0 or seats < 0, and accepts every body with a number area > 0,
\* a number seats >= 0 and a list of allowed tags as features.  Stated for
\* the bodies whose features value is a list or missing; the other
\* features values are the subject of C8.
C7_RejectsBadNumbers ==
    (ValidateDone /\ payload.features.t \in {"list", "missing"}) =>
        /\ ( \/ \E k \in required_fields : ~ HasKey(payload, k)
             \/ ~ Coercible(payload.area)
             \/ ~ Coercible(payload.seats)
             \/ payload.area.v <= 0
             \/ payload.seats.v < 0 ) => Rejected
        /\ ( /\ payload.area.t = "num" /\ payload.area.v > 0
             /\ payload.seats.t = "num" /\ payload.seats.v >= 0
             /\ payload.features.t = "list"
             /\ Range(payload.features.v) \subseteq allowed_features )
           => Accepted

\* Whether the area and seats of body p are JSON numbers with area > 0 and
\* seats >= 0.
GoodNumbers(p) ==
    /\ p.area.t = "num" /\ p.area.v > 0
    /\ p.seats.t = "num" /\ p.seats.v >= 0

\* Whether a raw features value is not a list of allowed tags.
BadFeatures(f) == f.t # "list" \/ ~ (Range(f.v) \subseteq allowed_features)

\* C8 as claimed: validation rejects with a ValidationError every body
\* whose features value is not a list or holds a tag outside the
\* enumeration, so the classifier and the matcher never run on one.
\* Stated for the bodies whose area and seats are good numbers; the others
\* are the subject of C7.
C8_RejectsBadFeatures ==
    GoodNumbers(payload) =>
        /\ (ValidateDone /\ BadFeatures(payload.features)) => Rejected
        /\ stages \cap {"classify", "match"} # {}
              => ~ BadFeatures(payload.features)

\* Whether the response body has its summary, checklist and report.
FullyFormed ==
    /\ result.summary # NoSummary
    /\ result.checklist = RuleIds(matched_rules)
    /\ result.ai_report # NoReport

\* C9 as claimed: a request ends either with a ValidationError returned
\* before classification and matching, or with a fully formed result.
\* Stated for the bodies whose area and seats are good numbers.
C9_TwoOutcomes ==
    (pc = "done" /\ GoodNumbers(payload)) =>
        \/ Rejected /\ stages = {"validate"}
        \/ outcome = "ok" /\ FullyFormed

\* C10: when the AI call fails, whatever the failure, the request goes to
\* the fallback step and on to a successful result whose report is the
\* locally generated one; the failure never ends the request.
C10_AIFailureFallsBack ==
    ai_try \in AIFailures =>
        /\ pc \in {"fallback", "done"}
        /\ outcome \notin {"error", "raised"}
        /\ pc = "fallback" => ENABLED Fallback
        /\ pc = "done" =>
              /\ outcome = "ok"
              /\ "fallback" \in stages
              /\ "success" \notin stages
              /\ FullyFormed
              /\ result.ai_report.generated_by = "local"
              /\ result.ai_report.rule_ids = result.checklist

\* C10 witness: the AI call found no credentials and the request ended
\* well with the local report.
C10_Witness ==
    /\ pc = "done"
    /\ ai_try = "no_credentials"
    /\ outcome = "ok"
    /\ result.ai_report.generated_by = "local"

\* The request ended well and its report was written on the named branch.
ReportedOn(branch) == pc = "done" /\ outcome = "ok" /\ branch \in stages

\* The report of the response says of itself that it is the fallback.
SaysFallback ==
    LET b == result.ai_report.body
    IN  "is_fallback" \in DOMAIN b /\ b["is_fallback"] = TRUE

ExtraKeys == {"open_questions", "is_fallback"}

Started == "ai_attempt" \in stages

\* The report step is on one of its two branches, or past it.
OnBranches == {b \in {"success", "fallback"} : b \in stages}

\* What holds of the report step in every state.
AssemblerSafe ==
    /\ pc \in {"success", "fallback"} => Started
    /\ OnBranches # {} => Started
    /\ Cardinality(OnBranches) <= 1
    /\ Started => outcome \notin {"error", "raised"}
    /\ (pc = "done" /\ Started) =>
          Cardinality(OnBranches) = 1 /\ outcome = "ok"

\* C13: the report step goes from its start through the AI attempt to
\* exactly one of the success and fallback branches, never both, and on
\* to the end of the request; once started it never raises, and because
\* the AI call comes back it always reaches the end.
C13_AssemblerRuns ==
    /\ []AssemblerSafe
    /\ (pc = "ai_attempt") ~> (pc = "done" /\ Started)

\* C13 witness: a request that went through the AI attempt and the
\* success branch, and no other branch, to its end.
C13_Witness ==
    /\ pc = "done"
    /\ stages = {"validate", "classify", "match", "ai_attempt", "success"}
    /\ outcome = "ok"

\* The corpora the store can hold.
Storable == FileRules \cup {get_fallback_rules}

\* Worker w has been through the loop of step 4.
Matched(w) == workers[w].pc = "done"

\* C14: whatever loads run while a request is in the loop, the rules it
\* keeps are the match result against one corpus the store held as a
\* whole, the one it held when the loop began; never some rules of one
\* corpus and some of another.
C14_OneSnapshot ==
    \A w \in Workers :
        Matched(w) =>
            /\ workers[w].taken \in Storable
            /\ workers[w].matched =
                  MatchedRules(workers[w].profile, workers[w].taken)

\* C14 witness: a request in the middle of the loop, one rule tested,
\* still on the list it began with while the store holds another corpus.
C14_Witness ==
    \E w \in Workers :
        /\ workers[w].pc = "match"
        /\ workers[w].pos = 2
        /\ workers[w].rules = workers[w].taken
        /\ workers[w].taken # RESTAURANT_RULES
        /\ MatchedRules(workers[w].profile, workers[w].taken) #
              MatchedRules(workers[w].profile, RESTAURANT_RULES)

\* A step in which a load found the source unreadable.
FailedLoad ==
    \E src \in LoadSources :
        src.kind = "unreadable" /\ load_restaurant_rules(src)

\* C15, as claimed: a load that fails to read or parse the source leaves
\* the store with the corpus it held before.
C15_FailedLoadKeepsCorpus ==
    [][FailedLoad => RESTAURANT_RULES' = RESTAURANT_RULES]_vars

\* C15, amended: a load that fails to read or parse the source puts the
\* built-in rules in the store, whatever it held before, prints the
\* error, and leaves every request in flight as it was.
C15_FailedLoadFallsBack ==
    [][FailedLoad =>
          /\ RESTAURANT_RULES' = get_fallback_rules
          /\ load_log' = "Error loading rules"
          /\ workers' = workers]_vars

\* C15 witness: a load has failed while a request was in the loop over a
\* corpus read from the file; the store now holds the built-in rules.
C15_Witness ==
    /\ load_log = "Error loading rules"
    /\ RESTAURANT_RULES = get_fallback_rules
    /\ \E w \in Workers :
          /\ workers[w].pc = "match"
          /\ workers[w].taken \in FileRules

\* The summary of a profile, as steps 2 and 3 define it.
SummaryOf(p) ==
    [area |-> p.area, seats |-> p.seats, features |-> p.features,
     fire_track |-> IF p.area <= FromInt(FIRE_AREA_MAX)
                       /\ p.seats <= FIRE_SEATS_MAX
                      THEN "declaration" ELSE "full-review",
     police |-> p.seats > POLICE_SEATS \/ "alcohol" \in p.features]

\* Summary and checklist of every request are a function of its own
\* profile and of the corpus it read, whatever the other workers do.
OwnInputsOnly ==
    \A w \in Workers :
        /\ workers[w].pc \in {"iterate", "match", "done"} =>
              workers[w].summary = SummaryOf(workers[w].profile)
        /\ Matched(w) =>
              /\ workers[w].checklist =
                    RuleIds(MatchedRules(workers[w].profile,
                                         workers[w].taken))
              /\ \A v \in Workers :
                    (/\ Matched(v)
                     /\ workers[v].profile = workers[w].profile
                     /\ workers[v].taken = workers[w].taken)
                    => /\ workers[v].matched = workers[w].matched
                       /\ workers[v].checklist = workers[w].checklist
                       /\ workers[v].summary = workers[w].summary

\* A step of worker w's request writes nothing but w's own record.
WritesOwnOnly ==
    \A w \in Workers :
        workers'[w] # workers[w] =>
            /\ RESTAURANT_RULES' = RESTAURANT_RULES
            /\ load_log' = load_log
            /\ \A v \in Workers \ {w} : workers'[v] = workers[v]

\* C16: requests are independent: under every interleaving with other
\* requests and with loads, summary and checklist of a request depend
\* only on its profile and on the corpus it read, so equal profile and
\* corpus give equal results; a step of a request leaves the corpus and
\* every other request unchanged.
C16_RequestsIndependent ==
    /\ []OwnInputsOnly
    /\ [][WritesOwnOnly]_vars

\* C16 witness: two requests with the same profile are both half way
\* through the loop, each with a rule kept.
C16_Witness ==
    /\ \A w \in Workers :
          /\ workers[w].pc = "match"
          /\ workers[w].pos = 2
          /\ workers[w].matched # <<>>
    /\ workers["w1"].profile = workers["w2"].profile

\* The part of condition c under the six keys.
Known(c) == [k \in DOMAIN c \cap CondKeys |-> c[k]]

\* C17: the matcher gives no error outcome: whichever of the six keys the
\* condition lacks and whatever other key it carries, the rule is either
\* matched or not matched and the request goes on to its next step; the
\* answer is the one for the clauses present under the six keys, a key
\* outside them or missing constraining nothing.
C17_MatcherTotal ==
    MatchDone =>
        /\ pc = "ai_attempt"
        /\ outcome = "none"
        /\ matched_rules \in {<<>>, <<TheRule>>}
        /\ TheRuleMatched
              <=> \A k \in DOMAIN Known(RuleCond(TheRule)) :
                     ClauseHolds(k, RuleCond(TheRule)[k], CurrentProfile)

\* C17 witness: a condition with an unknown key and only one of the six,
\* which holds, matched.
C17_Witness ==
    /\ MatchDone
    /\ DOMAIN RuleCond(TheRule) = {"area_max"} \cup UnknownKeys
    /\ TheRuleMatched

\* The call has been through validateBusinessData.
Validated == api.pc \in {"fetch", "settled"}

\* What validateBusinessData throws.
ValidationErrors ==
    { Err("Error", m) :
        m \in {"area must be greater than 0", "seats must be 0 or more",
               "features must be an array"} }

\* Data valid but for its size: a positive area, a seat count of 0 or
\* more, an array of features, and an area or a seat count beyond the
\* advisory limit.
OnlyTooLarge(d) ==
    /\ d.area.t = "num" /\ d.area.v > 0
    /\ d.seats.t = "num" /\ d.seats.v >= 0
    /\ d.features.t = "array"
    /\ d.area.v > AREA_WARN \/ d.seats.v > SEATS_WARN

\* C18: data valid but for an area above 10000 or a seat count above 1000
\* passes validateBusinessData: nothing is thrown, a warning is written
\* for each value beyond its limit, and the request goes on the network.
C18_LargeValuesAdvisory ==
    (Validated /\ OnlyTooLarge(api.data)) =>
        /\ api.thrown \notin ValidationErrors
        /\ api.pc = "fetch" => api.thrown = NoError
        /\ api.sent = 1
        /\ "area very large" \in api.warned <=> api.data.area.v > AREA_WARN
        /\ "seats very large" \in api.warned
              <=> api.data.seats.v > SEATS_WARN

\* C18 witness: an area of 10001 with 1001 seats was validated and its
\* request is on the network, both warnings written.
C18_Witness ==
    /\ api.pc = "fetch"
    /\ api.data.area = JsNum(AREA_WARN + 1)
    /\ api.data.seats = JsNum(SEATS_WARN + 1)
    /\ api.sent = 1
    /\ api.warned = {"area very large", "seats very large"}

\* data.error || data.message of a JSON body, "" if it has neither.
ServerMessage(b) == IF b.error # "" THEN b.error ELSE b.message

\* The server answered the call with a status that is not OK and a JSON
\* body carrying an error or message text.
AnsweredWithText ==
    /\ api.pc \in {"settled", "idle"}
    /\ api.response.kind = "response"
    /\ ~ api.response.ok
    /\ api.response.body.t = "json"
    /\ ServerMessage(api.response.body) # ""

\* C19: when the server answers with a status that is not OK and a JSON
\* body carrying an error or message text, fetchWithErrorHandling throws
\* an Error whose message is that text, and handleFormSubmit, once
\* settled, shows that text in the error container.
C19_ServerTextSurfaced ==
    AnsweredWithText =>
        /\ api.thrown.message = ServerMessage(api.response.body)
        /\ (api.caller = "form" /\ api.pc = "idle") =>
              /\ page.errorVisible
              /\ page.errorContent = ServerMessage(api.response.body)

\* Data assessBusiness is to refuse: area missing, NaN or not above 0;
\* seats missing, not a number (NaN or a string that is none) or below
\* 0; features not an array.
Refusable(d) ==
    \/ d.area.t \in {"undefined", "nan"}
    \/ d.area.t = "num" /\ d.area.v <= 0
    \/ d.seats.t \in {"undefined", "nan", "str"}
    \/ d.seats.t = "num" /\ d.seats.v < 0
    \/ d.features.t # "array"

\* C20: assessBusiness validates before it sends: for data it is to
\* refuse it throws a validation error and puts no request on the
\* network; a request is on the network only for data that
\* validateBusinessData let through.
C20_ValidatesBeforeSending ==
    /\ (Validated /\ Refusable(api.data)) =>
          /\ api.sent = 0
          /\ api.thrown \in ValidationErrors
    /\ api.sent > 0 => validateBusinessData(api.data).thrown = NoError


----------------------------------------------------------------------------
(* The page: submissions *)

\* A step in which a submission that was awaiting its answer has it.
Answered == \E s \in Slots : inflight[s] /\ ~ inflight'[s]

\* A step of handleFormSubmit whose early check fails, and one that finds
\* no service.
EarlyRefusal == SubmitForm /\ ~ validateFormData(collectFormData(inputs))

NoService ==
    SubmitForm /\ validateFormData(collectFormData(inputs))
               /\ ~ page.apiService

\* Exactly one of the results and the error is shown on page pg.
OneView(pg) == pg.resultsVisible # pg.errorVisible

\* C21: a submission that enters the loading state leaves it: each
\* submission that awaits its answer gets it, the loading state that is
\* on goes off, and the handler ends (on an answer, or at once when the
\* service is missing) with the loading state off and exactly one of
\* the results and the error shown; a submission refused by the early
\* check leaves the loading state and the awaited answers as they were
\* and shows the error.
C21_LoadingEnds ==
    /\ [][ (Answered \/ NoService) =>
              ~ page'.loading /\ OneView(page') ]_vars
    /\ [][ EarlyRefusal =>
              /\ page'.loading = page.loading
              /\ inflight' = inflight
              /\ page'.errorVisible /\ ~ page'.resultsVisible ]_vars
    /\ \A s \in Slots : inflight[s] ~> ~ inflight[s]
    /\ page.loading ~> ~ page.loading

\* Results are on the page, nothing is awaited, the loading state is off.
C21_Witness ==
    /\ page.resultsVisible
    /\ ~ page.loading
    /\ \A s \in Slots : ~ inflight[s]


\* A step that calls initializeApiService().
Attempt == ServiceScript \/ RetryTimer

\* C22: initializeApiService retries until it succeeds: an attempt made
\* while window.CONFIG is not set assigns no window.ApiService and
\* schedules the next attempt; an attempt made once it is set assigns
\* window.ApiService and schedules nothing; a service that is there has
\* no retry pending and stays; and the service is there in the end,
\* though the configuration is set after the first attempt.
C22_RetriesUntilConfigured ==
    /\ [][ Attempt /\ ~ boot.config =>
              ~ page'.apiService /\ boot'.timer ]_vars
    /\ [][ Attempt /\ boot.config =>
              page'.apiService /\ ~ boot'.timer ]_vars
    /\ [](page.apiService => ~ boot.timer)
    /\ [][ page.apiService => page'.apiService ]_vars
    /\ <>(page.apiService)

\* The service is there after the first attempt failed and a retry made
\* with the configuration still missing failed too.
C22_Witness ==
    /\ page.apiService
    /\ boot.retries >= 2


----------------------------------------------------------------------------
(* The page: pagination *)

\* The four counters of page pg are at PAGE_SIZE.
CountersReset(pg) ==
    /\ pg.checklistShowCount = PAGE_SIZE
    /\ pg.actionsShowCount = PAGE_SIZE
    /\ pg.risksShowCount = PAGE_SIZE
    /\ pg.tipsShowCount = PAGE_SIZE

\* The lists of a response body, by section.
ListOf(data, section) ==
    CASE section = "checklist" -> data.checklist
      [] section = "actions"   -> data.ai_report.actions
      [] section = "risks"     -> data.ai_report.potential_risks
      [] section = "tips"      -> data.ai_report.tips

\* C23: every call of displayResults with a response resets the four
\* counters to PAGE_SIZE before it renders: after the step the counters
\* are at PAGE_SIZE, and where the results are shown each section shows
\* the first PAGE_SIZE items of the new list at most, however far the
\* result before had been expanded.
C23_NewResultStartsFolded ==
    [][ \A r \in PageOutcomes :
          /\ Answered
          /\ fetchWithErrorHandling(r).thrown = NoError
          /\ page' = Resume(page, NoError, r.body)
          => /\ CountersReset(page')
             /\ page'.resultsVisible =>
                   \A section \in Sections :
                      /\ Len(page'.shown[section].items) <= PAGE_SIZE
                      /\ page'.shown[section].items =
                           Slice(ListOf(r.body, section), PAGE_SIZE) ]_vars

\* A result with no checklist is shown, folded, after a result whose
\* checklist was longer than a page.
C23_Witness ==
    /\ page.resultsVisible
    /\ CountersReset(page)
    /\ Len(page.currentChecklist) > PAGE_SIZE
    /\ page.shown.checklist = NoView


----------------------------------------------------------------------------
(* The React form *)

\* Field f holding val is as the schema wants it: a required number
\* field holds the digits of a number within its limits, a required
\* group has at least minSelected boxes ticked.
FieldValid(f, val) ==
    /\ f.type = "number" /\ f.required =>
          /\ val.t = "digits"
          /\ f.min.set => val.v >= f.min.n
          /\ f.max.set => val.v <= f.max.n
    /\ f.type = "checkbox-group" /\ f.required =>
          /\ Len(val) >= 1
          /\ Len(val) >= f.minSelected

\* C24: submit calls onSubmit only when no field is invalid: every
\* required number field non-empty, numeric and within [min, max], every
\* required checkbox group with at least minSelected boxes ticked; what
\* onSubmit gets has every number field as the number typed.
C24_SubmitOnlyValid ==
    [][ submit /\ dyn'.onSubmit.called =>
          \A f \in FieldsOf(dyn.schema) :
             /\ FieldValid(f, dyn.values[f.name])
             /\ f.type = "number" =>
                   dyn'.onSubmit.arg[f.name] = JsNum(dyn.values[f.name].v) ]_vars

\* The restaurant form was submitted with every field in order.
C24_Witness ==
    /\ dyn.schema = "restaurant"
    /\ dyn.onSubmit.called
    /\ dyn.onSubmit.arg.area = JsNum(1)
    /\ Len(dyn.onSubmit.arg.features) = 2


----------------------------------------------------------------------------
(* The page: the submit button *)

\* The submissions that await their answer.
Pending == { s \in Slots : inflight[s] }

\* C25: while a request is in flight the submit button stays disabled
\* whatever the user types or ticks, so at most one call of
\* assessBusiness is outstanding and the loading state is on for as
\* long as a request is pending.
C25_OneRequestAtATime ==
    /\ Pending # {} => page.submitDisabled /\ page.loading
    /\ Cardinality(Pending) <= 1

\* The button is enabled while a request is pending.
C25_EnabledWhilePending == Pending # {} /\ ~ page.submitDisabled

\* Two requests are pending at once.
C25_TwoPending == Cardinality(Pending) >= 2

\* The loading state is off while a request is pending.
C25_ClearedWhilePending == Pending # {} /\ ~ page.loading

\* The current inputs pass validateInputs.
InputsValid ==
    /\ GreaterThan(parseFloat(inputs.area), 0)
    /\ GreaterEq(parseInt(inputs.seats), 0)
    /\ Len(inputs.features) > 0

\* C26: in every state of the form, once its listeners are set, the
\* submit button is enabled only if the inputs satisfy area > 0,
\* seats >= 0 and at least one feature ticked.
C26_EnabledOnlyIfValid ==
    boot.pc = "loaded" /\ ~ page.submitDisabled => InputsValid

\* C27: the results container and the error container are never shown
\* together, after any sequence of submissions, answers and failures,
\* overlapping ones included.
C27_NeverBothShown == ~ (page.resultsVisible /\ page.errorVisible)

\* An error is shown alone while another submission is still pending,
\* after results had been rendered.
C27_Witness ==
    /\ page.errorVisible
    /\ ~ page.resultsVisible
    /\ Pending # {}
    /\ page.currentChecklist # <<>>


----------------------------------------------------------------------------
(* The page: the checklist and its buttons *)

\* The checklist on display: displayChecklist keeps the list it renders
\* in window.currentChecklist, and renders nothing for an empty one.
Displayed ==
    IF page.shown.checklist.items = <<>> THEN <<>> ELSE page.currentChecklist

\* The relation of the counter, the items and the buttons for list l.
Paginated(l) ==
    LET count    == page.checklistShowCount
        items    == page.shown.checklist.items
        controls == page.shown.checklist.controls
    IN  /\ PAGE_SIZE <= count
        /\ count <= (IF Len(l) > PAGE_SIZE THEN Len(l) ELSE PAGE_SIZE)
        /\ Len(items) = (IF count < Len(l) THEN count ELSE Len(l))
        /\ \A k \in 1..Len(items) : items[k] = l[k]
        /\ "more" \in controls <=> Len(items) < Len(l)
        /\ "all" \in controls <=> Len(items) < Len(l)
        /\ "less" \in controls <=>
              Len(items) = Len(l) /\ Len(items) > PAGE_SIZE

\* C28: with the results on the page, after any clicks on the buttons
\* that are rendered, the counter is between PAGE_SIZE and the larger of
\* PAGE_SIZE and the length of the checklist, the items rendered are the
\* first min(counter, length) of the checklist in its order, show-more
\* and show-all are rendered iff an item is hidden, and show-less iff
\* all items are shown and more than PAGE_SIZE of them.
C28_ChecklistPaginated == page.resultsVisible => Paginated(Displayed)

\* The whole of a checklist longer than two pages is shown, after
\* clicks, with the show-less button under it.
C28_Witness ==
    /\ page.resultsVisible
    /\ page.checklistShowCount = Len(page.currentChecklist)
    /\ Len(page.shown.checklist.items) > 2 * PAGE_SIZE
    /\ page.shown.checklist.controls = {"less"}

============================================================================
